---- MODULE Spec2Model ----
(***************************************************************************)
(* Compliance evidence and risk reconciliation engine of isms-backend.     *)
(*                                                                         *)
(* The persistent store (Prisma tables) is the state.  Tables in which the *)
(* code can create several rows with equal column values are bags, so a    *)
(* duplicate row is visible as a copy count above one.                     *)
(***************************************************************************)
EXTENDS Bags, FiniteSets, Integers, Sequences, TLC

VARIABLES
    evidence,     \* Evidence table: bag of [controlId, hash, collectedBy]
    risks,        \* Risk table: bag of [assetId, title, description, impact, likelihood, riskScore, status]
    assets,       \* Asset table: set of [name, type]
    controls,     \* Control table: control id -> status (the id is the seeded isoReference)
    rawData,      \* GitHubRepo.rawData: repo -> last stored scan result (NoScan before the first scan)
    tests,        \* Test table: test name -> row
    testControl,  \* TestControl table: set of <<test, controlId>>
    now,          \* the clock, in seconds
    scans,        \* number of syncRepos runs so far
    device,       \* the enrolled endpoint: its asset, enrollment, check-in count and compliance row
    treatments,   \* RiskTreatment table: bag of [assetId, title, controlId] (the risk by its columns)
    cache,        \* GitHubTestEvaluator.cache of one instance: adapter key -> cached value or none
    calls,        \* the adapter call of each caller: where it stands, its key, pages read, result
    fetches,      \* adapter key -> number of fetches started against the GitHub API
    call,         \* a function applied on its own, or the run in progress: arguments, position, result
    lastOp        \* what the last completed handler was and what it observed

vars == <<evidence, risks, assets, controls, rawData, tests, testControl, now, scans, device, treatments,
          cache, calls, fetches, call, lastOp>>

\* The variables of the evaluator's adapter calls.
adapterVars == <<cache, calls, fetches>>

(***************************************************************************)
(* Text.  isoReference values are matched with `contains`, so they are     *)
(* kept as character sequences.                                            *)
(***************************************************************************)
RefChars ==
    ("A.5.15" :> <<"A", ".", "5", ".", "1", "5">>) @@
    ("A.5.18" :> <<"A", ".", "5", ".", "1", "8">>) @@
    ("A.8.3"  :> <<"A", ".", "8", ".", "3">>) @@
    ("A.8.7"  :> <<"A", ".", "8", ".", "7">>) @@
    ("A.8.8"  :> <<"A", ".", "8", ".", "8">>) @@
    ("A.8.20" :> <<"A", ".", "8", ".", "2", "0">>) @@
    ("A.8.24" :> <<"A", ".", "8", ".", "2", "4">>) @@
    ("A.8.25" :> <<"A", ".", "8", ".", "2", "5">>) @@
    ("A.8.32" :> <<"A", ".", "8", ".", "3", "2">>)

\* Prisma's { contains: sub }: sub occurs in s as a substring.
Contains(s, sub) ==
    \E i \in 1..(Len(s) - Len(sub) + 1) : SubSeq(s, i, i + Len(sub) - 1) = sub

\* The seeded Annex A controls the engine refers to, with a neighbour (A.8.3)
\* whose reference is a prefix of another one.
SeededControls == {"A.5.15", "A.5.18", "A.8.3", "A.8.7", "A.8.8", "A.8.20", "A.8.24", "A.8.25", "A.8.32"}

ControlStatuses == {"NOT_IMPLEMENTED", "PARTIALLY_IMPLEMENTED", "IMPLEMENTED"}

NoControl == "null"

\* Contains, tabulated over the references in use.
RefContains ==
    [c \in DOMAIN RefChars |-> [r \in DOMAIN RefChars |-> Contains(RefChars[c], RefChars[r])]]

\* The controls of the organization whose isoReference contains isoRef.
MatchingControls(ctl, isoRef) ==
    {c \in DOMAIN ctl : RefContains[c][isoRef]}

\* findControlId: findFirst over the matching controls, null when there is none.
findControlId(ctl, isoRef) ==
    IF MatchingControls(ctl, isoRef) = {} THEN NoControl
    ELSE CHOOSE c \in MatchingControls(ctl, isoRef) : TRUE

(***************************************************************************)
(* Repository collector: one result per check, hashed.                     *)
(***************************************************************************)
Repos == <<"acme/api">>

RepoSet == {Repos[i] : i \in 1..Len(Repos)}

CheckKeys == {"branchProtection", "commitSigning", "cicd", "accessControl", "repoMeta"}

\* controlRef and title each collector writes into its result.
CollectorRef ==
    [branchProtection |-> "A.8.32", commitSigning |-> "A.8.24", cicd |-> "A.8.25",
     accessControl |-> "A.5.15", repoMeta |-> "A.5.15"]

CollectorTitle ==
    [branchProtection |-> "Branch Protection", commitSigning |-> "Commit Signing",
     cicd |-> "Secure SDLC / CI-CD Presence", accessControl |-> "Access Control - Collaborators",
     repoMeta |-> "Repository Visibility & Access"]

\* sha256(JSON.stringify(result)): the digest is modelled collision free, as
\* the serialized fields of the result in the order they are written.
sha256(result) ==
    <<"sha256", result.controlRef, result.title, result.repo, result.compliant>>

\* A check that was not collected (its promise rejected) is null in the scan.
NoCheck == [collected |-> FALSE]

CheckData(key, repo, compliant) ==
    LET result == [controlRef |-> CollectorRef[key], title |-> CollectorTitle[key],
                   repo |-> repo, compliant |-> compliant]
    IN  [collected |-> TRUE, result |-> result, hash |-> sha256(result)]

\* What each collector can return for one repository: compliant is true or
\* false; collectAccessControl yields compliant null without permission;
\* a collector that throws (collectBranchProtection on an error other than 404)
\* leaves null for its check in scanRepo.
CheckOutcomes(key, repo) ==
    {CheckData(key, repo, c) : c \in {"true", "false"}}
    \cup (IF key = "accessControl" THEN {CheckData(key, repo, "null")} ELSE {})
    \cup (IF key = "branchProtection" THEN {NoCheck} ELSE {})

\* scanRepo: every combination of check outcomes for one repository.
scanRepo(repo) ==
    [branchProtection : CheckOutcomes("branchProtection", repo),
     commitSigning    : CheckOutcomes("commitSigning", repo),
     cicd             : CheckOutcomes("cicd", repo),
     accessControl    : CheckOutcomes("accessControl", repo),
     repoMeta         : CheckOutcomes("repoMeta", repo)]

NoScan == [scanned |-> FALSE]

NoCall == [fn |-> "none"]

\* No endpoint is enrolled.
NoDevice == [enrolled |-> FALSE]

(***************************************************************************)
(* GitHubTestEvaluator: the data fetchers and their per-instance cache.    *)
(***************************************************************************)
\* The adapter keys in use: the repository list, and the alerts of one repository.
AdapterKeys == {"repos", "vulnerabilityAlerts:acme/api"}

Callers == {"c1", "c2"}

NotCached == [cached |-> FALSE]

IdleCall == [pc |-> "idle", key |-> "none", acc |-> << >>, result |-> << >>, overlapped |-> FALSE]

\* The constructor: nothing cached; no call made yet.
NoAdapterCalls ==
    /\ cache = [k \in AdapterKeys |-> NotCached]
    /\ calls = [c \in Callers |-> IdleCall]
    /\ fetches = [k \in AdapterKeys |-> 0]

(***************************************************************************)
(* Evidence deduplicator.                                                  *)
(***************************************************************************)
\* Mutation: the lookup is narrowed to the rows of another collector.
EvidenceExists_NoMatch(ev, controlId, hash) ==
    \E e \in BagToSet(ev) :
        e.controlId = controlId /\ e.hash = hash /\ e.collectedBy = "mdm-agent"

EvidenceExists(ev, controlId, hash) ==
    \E e \in BagToSet(ev) : e.controlId = controlId /\ e.hash = hash

RECURSIVE upsertEvidenceLoop(_, _, _, _)
upsertEvidenceLoop(ev, ctl, checks, i) ==
    IF i > Len(checks) THEN ev
    ELSE LET check == checks[i]
             controlId == findControlId(ctl, check.result.controlRef)
         IN  IF controlId = NoControl THEN upsertEvidenceLoop(ev, ctl, checks, i + 1)
             ELSE IF EvidenceExists(ev, controlId, check.hash)
                  THEN upsertEvidenceLoop(ev, ctl, checks, i + 1)
                  ELSE upsertEvidenceLoop(
                           ev (+) SetToBag({[controlId |-> controlId, hash |-> check.hash,
                                             collectedBy |-> "system"]}),
                           ctl, checks, i + 1)

\* Mutation: the rows of the scan replace the table.
upsertEvidenceForScan_Replace(ev, ctl, scanData) ==
    LET checks == SelectSeq(<<scanData.branchProtection, scanData.commitSigning, scanData.cicd,
                              scanData.accessControl, scanData.repoMeta>>,
                            LAMBDA c : c.collected)
    IN  upsertEvidenceLoop(EmptyBag, ctl, checks, 1)

\* upsertEvidenceForScan: the Evidence table after one repository's scan.
upsertEvidenceForScan(ev, ctl, scanData) ==
    LET checks == SelectSeq(<<scanData.branchProtection, scanData.commitSigning, scanData.cicd,
                              scanData.accessControl, scanData.repoMeta>>,
                            LAMBDA c : c.collected)
    IN  upsertEvidenceLoop(ev, ctl, checks, 1)

(***************************************************************************)
(* Assets and risks of the repository scan.                                *)
(***************************************************************************)
LEVEL_VALUE == [LOW |-> 1, MEDIUM |-> 2, HIGH |-> 3, CRITICAL |-> 4]

LevelValueOr2(level) ==
    IF level \in DOMAIN LEVEL_VALUE THEN LEVEL_VALUE[level] ELSE 2

calcScore(impact, likelihood) == LevelValueOr2(impact) * LevelValueOr2(likelihood)

CHECKS ==
    << [key |-> "branchProtection", isoRef |-> "A.8.32",
        riskTitle |-> "Branch protection not enabled on", impact |-> "HIGH", likelihood |-> "MEDIUM"],
       [key |-> "commitSigning", isoRef |-> "A.8.24",
        riskTitle |-> "Commit signing not enforced on", impact |-> "HIGH", likelihood |-> "MEDIUM"],
       [key |-> "cicd", isoRef |-> "A.8.25",
        riskTitle |-> "No CI/CD pipeline detected in", impact |-> "MEDIUM", likelihood |-> "MEDIUM"],
       [key |-> "accessControl", isoRef |-> "A.5.15",
        riskTitle |-> "Excessive collaborator access on", impact |-> "HIGH", likelihood |-> "HIGH"],
       [key |-> "repoMeta", isoRef |-> "A.5.15",
        riskTitle |-> "Public repository exposure:", impact |-> "HIGH", likelihood |-> "HIGH"] >>

\* check.riskTitle(repo) and check.riskDesc(repo): the template with the repository name.
RiskTitle(check, repo) == <<check.riskTitle, repo>>

RiskDesc(check, repo) == <<"desc", check.key, repo>>

upsertGitHubOrgAsset(as) == as \cup {[name |-> "GitHub Organisation", type |-> "SAAS"]}

\* upsertRepoAsset: one APPLICATION asset per repository name; the asset id is
\* represented by the name it is found by.
upsertRepoAsset(as, repo) == as \cup {[name |-> repo, type |-> "APPLICATION"]}

\* Mutation: the lookup of the device engine, which sees OPEN rows only.
RisksOf_OpenOnly(rk, assetId, title) ==
    {r \in BagToSet(rk) : r.assetId = assetId /\ r.title = title /\ r.status = "OPEN"}

\* The rows findFirst({assetId, title}) can return.
RisksOf(rk, assetId, title) ==
    {r \in BagToSet(rk) : r.assetId = assetId /\ r.title = title}

\* Mutation: without the early return for an OPEN row, a row is created again.
upsertRisk_Always(rk, assetId, check, repoFullName) ==
    LET title == RiskTitle(check, repoFullName)
        found == RisksOf(rk, assetId, title)
        riskScore == calcScore(check.impact, check.likelihood)
    IN  IF found # {} /\ (CHOOSE r \in found : TRUE).status # "OPEN"
        THEN LET existing == CHOOSE r \in found : TRUE
             IN  (rk (-) SetToBag({existing}))
                 (+) SetToBag({[existing EXCEPT !.status = "OPEN", !.riskScore = riskScore]})
        ELSE rk (+) SetToBag({[title |-> title, description |-> RiskDesc(check, repoFullName),
                               impact |-> check.impact, likelihood |-> check.likelihood,
                               riskScore |-> riskScore, status |-> "OPEN", assetId |-> assetId]})

upsertRisk(rk, assetId, check, repoFullName) ==
    LET title == RiskTitle(check, repoFullName)
        found == RisksOf(rk, assetId, title)
        riskScore == calcScore(check.impact, check.likelihood)
    IN  IF found # {}
        THEN LET existing == CHOOSE r \in found : TRUE
             IN  IF existing.status = "OPEN" THEN rk
                 ELSE (rk (-) SetToBag({existing}))
                      (+) SetToBag({[existing EXCEPT !.status = "OPEN", !.riskScore = riskScore]})
        ELSE rk (+) SetToBag({[title |-> title, description |-> RiskDesc(check, repoFullName),
                               impact |-> check.impact, likelihood |-> check.likelihood,
                               riskScore |-> riskScore, status |-> "OPEN", assetId |-> assetId]})

ZeroCounts == [k \in CheckKeys |-> [pass |-> 0, total |-> 0]]

\* The loop over CHECKS for one repository: acc = [risks, counts].
RECURSIVE checkLoop(_, _, _, _)
checkLoop(acc, scan, repo, j) ==
    IF j > Len(CHECKS) THEN acc
    ELSE LET check == CHECKS[j]
             checkData == scan[check.key]
         IN  IF ~checkData.collected THEN checkLoop(acc, scan, repo, j + 1)
             ELSE LET compliant == checkData.result.compliant
                      counted == [acc.counts EXCEPT ![check.key].total = @ + 1]
                  IN  IF compliant = "true"
                      THEN checkLoop([acc EXCEPT !.counts = [counted EXCEPT ![check.key].pass = @ + 1]],
                                     scan, repo, j + 1)
                      ELSE IF compliant = "false"
                           THEN checkLoop([risks |-> upsertRisk(acc.risks, repo, check, repo),
                                           counts |-> counted], scan, repo, j + 1)
                           ELSE checkLoop([acc EXCEPT !.counts = counted], scan, repo, j + 1)

\* The loop over the repositories: acc = [risks, counts, assets].
RECURSIVE repoLoop(_, _, _, _)
repoLoop(acc, repos, scanResults, i) ==
    IF i > Len(repos) THEN acc
    ELSE LET repo == repos[i]
         IN  IF repo \notin DOMAIN scanResults THEN repoLoop(acc, repos, scanResults, i + 1)
             ELSE LET inner == checkLoop([risks |-> acc.risks, counts |-> acc.counts],
                                         scanResults[repo], repo, 1)
                  IN  repoLoop([risks |-> inner.risks, counts |-> inner.counts,
                                assets |-> upsertRepoAsset(acc.assets, repo)],
                               repos, scanResults, i + 1)

(***************************************************************************)
(* Control status aggregator.                                              *)
(***************************************************************************)
isoMap ==
    [branchProtection |-> <<"A.8.32">>, commitSigning |-> <<"A.8.24">>, cicd |-> <<"A.8.25">>,
     accessControl |-> <<"A.5.15", "A.5.18">>, repoMeta |-> <<"A.5.15">>]

IsoMapOrder == <<"branchProtection", "commitSigning", "cicd", "accessControl", "repoMeta">>

RefsOf(seq) == {seq[i] : i \in 1..Len(seq)}

\* The references in the order their keys are inserted into controlPassRate.
IsoRefOrder == <<"A.8.32", "A.8.24", "A.8.25", "A.5.15", "A.5.18">>

\* Mutation: the counts of a later check replace those of an earlier one.
RECURSIVE mergeCounts_Last(_, _, _)
mergeCounts_Last(checkPassCounts, isoRef, k) ==
    IF k > Len(IsoMapOrder) THEN [pass |-> 0, total |-> 0]
    ELSE LET rest == mergeCounts_Last(checkPassCounts, isoRef, k + 1)
             counts == checkPassCounts[IsoMapOrder[k]]
         IN  IF counts.total = 0 \/ isoRef \notin RefsOf(isoMap[IsoMapOrder[k]]) THEN rest
             ELSE IF rest.total > 0 THEN rest ELSE counts

\* controlPassRate: the counts of the checks that feed isoRef and have total > 0, summed.
RECURSIVE mergeCounts(_, _, _)
mergeCounts(checkPassCounts, isoRef, k) ==
    IF k > Len(IsoMapOrder) THEN [pass |-> 0, total |-> 0]
    ELSE LET rest == mergeCounts(checkPassCounts, isoRef, k + 1)
             counts == checkPassCounts[IsoMapOrder[k]]
         IN  IF counts.total = 0 \/ isoRef \notin RefsOf(isoMap[IsoMapOrder[k]]) THEN rest
             ELSE [pass |-> rest.pass + counts.pass, total |-> rest.total + counts.total]

\* Mutation: the lower boundary is exclusive.
classify_Exclusive(pass, total) ==
    IF pass = total THEN "IMPLEMENTED"
    ELSE IF 2 * pass > total THEN "PARTIALLY_IMPLEMENTED"
    ELSE "NOT_IMPLEMENTED"

\* rate === 1 ? IMPLEMENTED : rate >= 0.5 ? PARTIALLY_IMPLEMENTED : NOT_IMPLEMENTED,
\* with rate = pass / total computed on integers.
classify(pass, total) ==
    IF pass = total THEN "IMPLEMENTED"
    ELSE IF 2 * pass >= total THEN "PARTIALLY_IMPLEMENTED"
    ELSE "NOT_IMPLEMENTED"

RECURSIVE updateControlLoop(_, _, _)
updateControlLoop(ctl, checkPassCounts, n) ==
    IF n > Len(IsoRefOrder) THEN ctl
    ELSE LET isoRef == IsoRefOrder[n]
             merged == mergeCounts(checkPassCounts, isoRef, 1)
         IN  IF merged.total = 0 THEN updateControlLoop(ctl, checkPassCounts, n + 1)
             ELSE updateControlLoop(
                      [c \in DOMAIN ctl |->
                          IF c \in MatchingControls(ctl, isoRef)
                          THEN classify(merged.pass, merged.total) ELSE ctl[c]],
                      checkPassCounts, n + 1)

updateControlStatuses(ctl, checkPassCounts) == updateControlLoop(ctl, checkPassCounts, 1)

\* upsertAssetsAndRisks: [risks, assets, controls, counts] after the run.
upsertAssetsAndRisks(rk, as, ctl, repos, scanResults) ==
    LET done == repoLoop([risks |-> rk, counts |-> ZeroCounts, assets |-> upsertGitHubOrgAsset(as)],
                         repos, scanResults, 1)
    IN  [risks |-> done.risks, assets |-> done.assets, counts |-> done.counts,
         controls |-> updateControlStatuses(ctl, done.counts)]


(***************************************************************************)
(* Automated test runner.                                                  *)
(***************************************************************************)
NoTime == -1

EvalResults == {"Pass", "Fail", "Warning"}

\* What the try block of the loop does for one test: the verdict evaluateByName
\* returns (or "throw"), and the call of the block that throws, if one does.
Outcome(result, fault) == [result |-> result, fault |-> fault]

\* evaluateByName returns a verdict or throws; every write succeeds.
EvalOutcomes ==
    {Outcome(r, "none") : r \in EvalResults} \cup {Outcome("throw", "evaluate")}

\* Also with a write of the block throwing: test.update, integrationTestRun.create
\* or testHistory.create.  The write of the catch block succeeds.
FaultOutcomes ==
    EvalOutcomes \cup {Outcome(r, f) : r \in EvalResults, f \in {"update", "run", "history"}}

\* test.update was reached and went through.
Updated(outcome) == outcome.fault \in {"none", "run", "history"}

evalResultToTestStatus(result) ==
    CASE result = "Pass" -> "OK"
      [] result = "Warning" -> "Due_soon"
      [] result = "Fail" -> "Needs_remediation"

\* findMany({organizationId, integrationId, type: 'Automated'})
AutomatedTests(tst) == {n \in DOMAIN tst : tst[n].type = "Automated"}

\* prisma.test.update in the try block of the loop.
testAfterRun(test, result, t) ==
    [test EXCEPT !.lastResult = result,
                 !.status = evalResultToTestStatus(result),
                 !.completedAt = IF result = "Pass" /\ test.completedAt = NoTime
                                 THEN t ELSE test.completedAt]

\* The Test table after the loop: only a test whose update went through changes.
runTestsLoop(tst, outcomes, t) ==
    [n \in DOMAIN tst |->
        IF n \in AutomatedTests(tst) /\ Updated(outcomes[n])
        THEN testAfterRun(tst[n], outcomes[n].result, t) ELSE tst[n]]

\* The loop without the record of the catch block.
runRecords_Silent(tst, outcomes) ==
    {[testId |-> n, status |-> outcomes[n].result, error |-> FALSE] :
        n \in {m \in AutomatedTests(tst) : outcomes[m].fault \in {"none", "history"}}}

\* The IntegrationTestRun rows one run appends: the verdict when the block got
\* past its create, and Fail with the error summary when the block threw.
runRecords(tst, outcomes) ==
    {[testId |-> n, status |-> outcomes[n].result, error |-> FALSE] :
        n \in {m \in AutomatedTests(tst) : outcomes[m].fault \in {"none", "history"}}}
    \cup {[testId |-> n, status |-> "Fail", error |-> TRUE] :
        n \in {m \in AutomatedTests(tst) : outcomes[m].fault # "none"}}

\* Auto-promotion: a control mapped to a test of the run, all of whose mapped tests are OK.
promoteControls(ctl, tst, tc, ran) ==
    [c \in DOMAIN ctl |->
        IF /\ \E n \in ran : <<n, c>> \in tc
           /\ \A m \in DOMAIN tst : <<m, c>> \in tc => tst[m].status = "OK"
        THEN "IMPLEMENTED" ELSE ctl[c]]

\* runAutomatedTests: [tests, controls, runs] after the run; nothing happens without tests.
runAutomatedTests(tst, ctl, tc, outcomes, t) ==
    IF AutomatedTests(tst) = {} THEN [tests |-> tst, controls |-> ctl, runs |-> {}]
    ELSE LET after == runTestsLoop(tst, outcomes, t)
         IN  [tests |-> after,
              controls |-> promoteControls(ctl, after, tc, AutomatedTests(tst)),
              runs |-> runRecords(tst, outcomes)]

(***************************************************************************)
(* syncRepos: scan every repository, record evidence, reconcile assets,    *)
(* risks and control statuses, then run the automated tests.               *)
(***************************************************************************)
RECURSIVE evidenceLoop(_, _, _, _)
evidenceLoop(ev, ctl, scanResults, i) ==
    IF i > Len(Repos) THEN ev
    ELSE evidenceLoop(upsertEvidenceForScan(ev, ctl, scanResults[Repos[i]]), ctl, scanResults, i + 1)

\* The scan results a run can collect: one scanRepo result per repository.
ScanResults == {f \in [RepoSet -> UNION {scanRepo(r) : r \in RepoSet}] :
                   \A r \in RepoSet : f[r] \in scanRepo(r)}

Outcomes(tst) == [AutomatedTests(tst) -> EvalOutcomes]

MaxScans == 2

\* The MITIGATED rows for which the run reports compliant = false.
FailsOnMitigated(rk, scanResults) ==
    {row \in BagToSet(rk) :
        /\ row.status = "MITIGATED"
        /\ \E r \in RepoSet, j \in 1..Len(CHECKS) :
              /\ row.assetId = r /\ row.title = RiskTitle(CHECKS[j], r)
              /\ scanResults[r][CHECKS[j].key].collected
              /\ scanResults[r][CHECKS[j].key].result.compliant = "false"}

\* One run over the scan results collected from GitHub; the evaluations of the
\* automated tests at the end of the run come out as one element of evals.
SyncRepos(scanResults, evals) ==
    /\ scans < MaxScans
    /\ scans' = scans + 1
    /\ \E ev \in {evidenceLoop(evidence, controls, scanResults, 1)},
          ar \in {upsertAssetsAndRisks(risks, assets, controls, Repos, scanResults)} :
          \E outcomes \in evals :
             \E rt \in {runAutomatedTests(tests, ar.controls, testControl, outcomes, now)} :
                /\ evidence' = ev
                /\ rawData' = scanResults
                /\ risks' = ar.risks
                /\ assets' = ar.assets
                /\ tests' = rt.tests
                /\ controls' = rt.controls
                /\ lastOp' = [kind |-> "syncRepos",
                              unchanged |-> (rawData = scanResults),
                              reopened |-> FailsOnMitigated(risks, scanResults) # {},
                              runs |-> rt.runs]
                /\ UNCHANGED <<testControl, now, device, treatments, adapterVars, call>>

\* POST /integrations/github/run-tests: the runner alone.
RunTests(outcomes) ==
    LET rt == runAutomatedTests(tests, controls, testControl, outcomes, now)
    IN  /\ tests' = rt.tests
        /\ controls' = rt.controls
        /\ lastOp' = [kind |-> "runAutomatedTests", runs |-> rt.runs, outcomes |-> outcomes]
        /\ UNCHANGED <<evidence, risks, assets, rawData, testControl, now, scans, device, treatments, adapterVars, call>>

(***************************************************************************)
(* Sequential repository scans of one organization without seeded tests.   *)
(***************************************************************************)
SeedControls == [c \in SeededControls |-> "NOT_IMPLEMENTED"]

\* A Risk row of the first repository for CHECKS[j], as upsertRisk creates it, with a status.
RepoRiskRow(j, status) ==
    [title |-> RiskTitle(CHECKS[j], Repos[1]), description |-> RiskDesc(CHECKS[j], Repos[1]),
     impact |-> CHECKS[j].impact, likelihood |-> CHECKS[j].likelihood,
     riskScore |-> calcScore(CHECKS[j].impact, CHECKS[j].likelihood),
     status |-> status, assetId |-> Repos[1]]

\* Risk.status is a column other writers set too, so a scan can find a row of
\* its own that is MITIGATED: the Risk table starts empty or with one such row.
InitRiskTables ==
    {EmptyBag} \cup {SetToBag({RepoRiskRow(j, "MITIGATED")}) : j \in 1..Len(CHECKS)}

InitScan ==
    /\ evidence = EmptyBag
    /\ risks \in InitRiskTables
    /\ assets = IF risks = EmptyBag THEN {}
                ELSE upsertRepoAsset(upsertGitHubOrgAsset({}), Repos[1])
    /\ controls = SeedControls
    /\ rawData = [r \in RepoSet |-> NoScan]
    /\ tests = << >>
    /\ testControl = {}
    /\ now = 0
    /\ scans = 0
    /\ device = NoDevice
    /\ treatments = EmptyBag
    /\ NoAdapterCalls
    /\ call = NoCall
    /\ lastOp = [kind |-> "init"]

NextScan == \E scanResults \in ScanResults : SyncRepos(scanResults, {<< >>})

SpecScan == InitScan /\ [][NextScan]_vars

(***************************************************************************)
(* Properties of sequential repository scans.                              *)
(***************************************************************************)
Scanned == lastOp.kind = "syncRepos"

\* The last stored result of check key for repository r, when there is one.
Collected(r, key) == rawData[r] # NoScan /\ rawData[r][key].collected

LastCompliant(r, key) == rawData[r][key].result.compliant

EvidenceUnique ==
    \A e1 \in BagToSet(evidence) :
        /\ CopiesIn(e1, evidence) = 1
        /\ \A e2 \in BagToSet(evidence) :
              (e1.controlId = e2.controlId /\ e1.hash = e2.hash) => e1 = e2

\* C1: over sequential scans the Evidence table never holds two rows with the
\* same (controlId, hash), and a scan whose results equal the previous scan's
\* inserts no Evidence row.
C1_EvidenceIdempotent ==
    /\ []EvidenceUnique
    /\ [][(lastOp'.kind = "syncRepos" /\ lastOp'.unchanged)
            => BagCardinality(evidence') = BagCardinality(evidence)]_vars

\* A second scan with the results of the first, with rows of all five checks in place.
C1_Witness ==
    /\ Scanned /\ lastOp.unchanged /\ scans = 2
    /\ BagCardinality(evidence) = 5

RiskUnique ==
    \A r1 \in BagToSet(risks) :
        /\ CopiesIn(r1, risks) = 1
        /\ \A r2 \in BagToSet(risks) :
              (r1.assetId = r2.assetId /\ r1.title = r2.title) => r1 = r2

\* The step reopens row in place: it is OPEN afterwards and no row was added.
ReopenedInPlace(row) ==
    /\ BagIn([row EXCEPT !.status = "OPEN"], risks')
    /\ ~BagIn(row, risks')
    /\ Cardinality(RisksOf(risks', row.assetId, row.title)) = 1
    /\ BagCardinality(risks') >= BagCardinality(risks)
    /\ \A other \in BagToSet(risks) :
          other # row => CopiesIn(other, risks') >= CopiesIn(other, risks)

C4_PassMitigates ==
    Scanned =>
        \A r \in RepoSet, j \in 1..Len(CHECKS) :
            (Collected(r, CHECKS[j].key) /\ LastCompliant(r, CHECKS[j].key) = "true")
                => \A row \in RisksOf(risks, r, RiskTitle(CHECKS[j], r)) : row.status # "OPEN"

(***************************************************************************)
(* updateControlStatuses applied to every checkPassCounts a run can        *)
(* accumulate with up to MaxTotal repositories.                            *)
(***************************************************************************)
MaxTotal == 2

CountPairs == {[pass |-> p, total |-> t] : p \in 0..MaxTotal, t \in 0..MaxTotal} 

CheckPassCounts == {f \in [CheckKeys -> CountPairs] : \A k \in CheckKeys : f[k].pass <= f[k].total}

InitClassify ==
    /\ evidence = EmptyBag
    /\ risks = EmptyBag
    /\ assets = {}
    /\ controls \in {[c \in SeededControls |-> st] : st \in ControlStatuses}
    /\ rawData = [r \in RepoSet |-> NoScan]
    /\ tests = << >>
    /\ testControl = {}
    /\ now = 0
    /\ scans = 0
    /\ device = NoDevice
    /\ treatments = EmptyBag
    /\ NoAdapterCalls
    /\ call \in {[fn |-> "updateControlStatuses", checkPassCounts |-> f, returned |-> FALSE] :
                    f \in CheckPassCounts}
    /\ lastOp = [kind |-> "init"]

ApplyUpdateControlStatuses ==
    /\ call.fn = "updateControlStatuses" /\ ~call.returned
    /\ controls' = updateControlStatuses(controls, call.checkPassCounts)
    /\ call' = [call EXCEPT !.returned = TRUE]
    /\ lastOp' = [kind |-> "updateControlStatuses"]
    /\ UNCHANGED <<evidence, risks, assets, rawData, tests, testControl, now, scans, device, treatments, adapterVars>>

SpecClassify == InitClassify /\ [][ApplyUpdateControlStatuses]_vars

\* The checks that feed a reference (isoMap read by reference).
Feeds(isoRef) ==
    CASE isoRef = "A.8.32" -> {"branchProtection"}
      [] isoRef = "A.8.24" -> {"commitSigning"}
      [] isoRef = "A.8.25" -> {"cicd"}
      [] isoRef = "A.5.15" -> {"accessControl", "repoMeta"}
      [] isoRef = "A.5.18" -> {"accessControl"}

FedRefs == {"A.8.32", "A.8.24", "A.8.25", "A.5.15", "A.5.18"}

RECURSIVE SumOver(_, _)
SumOver(S, f) ==
    IF S = {} THEN 0 ELSE LET x == CHOOSE y \in S : TRUE IN f[x] + SumOver(S \ {x}, f)

PassSum(counts, isoRef) == SumOver(Feeds(isoRef), [k \in CheckKeys |-> counts[k].pass])

TotalSum(counts, isoRef) == SumOver(Feeds(isoRef), [k \in CheckKeys |-> counts[k].total])

\* C6: for 0 <= pass <= total and total >= 1 the status written is IMPLEMENTED
\* iff pass = total, PARTIALLY_IMPLEMENTED iff pass/total >= 0.5 and pass < total,
\* NOT_IMPLEMENTED iff pass/total < 0.5.
C6_Classification ==
    (call.fn = "updateControlStatuses" /\ call.returned) =>
        \A isoRef \in FedRefs :
            LET pass == PassSum(call.checkPassCounts, isoRef)
                total == TotalSum(call.checkPassCounts, isoRef)
            IN  total >= 1 =>
                  /\ controls[isoRef] = "IMPLEMENTED" <=> pass = total
                  /\ controls[isoRef] = "PARTIALLY_IMPLEMENTED" <=> (2 * pass >= total /\ pass < total)
                  /\ controls[isoRef] = "NOT_IMPLEMENTED" <=> 2 * pass < total

\* A ratio of exactly 0.5 was classified, on a control that was IMPLEMENTED before.
C6_Witness ==
    /\ call.fn = "updateControlStatuses" /\ call.returned
    /\ PassSum(call.checkPassCounts, "A.8.32") = 1
    /\ TotalSum(call.checkPassCounts, "A.8.32") = 2
    /\ controls["A.8.32"] = "PARTIALLY_IMPLEMENTED"
    /\ PassSum(call.checkPassCounts, "A.8.24") = 0
    /\ TotalSum(call.checkPassCounts, "A.8.24") = 1
    /\ TotalSum(call.checkPassCounts, "A.8.25") = 0
    /\ controls["A.8.25"] = "IMPLEMENTED"

(***************************************************************************)
(* upsertAssetsAndRisks applied to the scan results of two repositories,   *)
(* in a new organization.                                                  *)
(***************************************************************************)
CountRepos == <<"acme/api", "acme/web">>

\* The results of one repository in which branch protection, access control
\* and repository metadata vary.
CountScan(repo) ==
    {d \in [branchProtection : CheckOutcomes("branchProtection", repo),
            commitSigning    : {CheckData("commitSigning", repo, "true")},
            cicd             : {CheckData("cicd", repo, "true")},
            accessControl    : CheckOutcomes("accessControl", repo),
            repoMeta         : CheckOutcomes("repoMeta", repo)] : TRUE}

\* scanResults: a Map with an entry for every repository whose scan did not fail.
CountScanResults ==
    UNION {{f \in [S -> UNION {CountScan(r) : r \in S}] : \A r \in S : f[r] \in CountScan(r)} :
              S \in (SUBSET RefsOf(CountRepos)) \ {{}}}

InitCounts ==
    /\ evidence = EmptyBag
    /\ risks = EmptyBag
    /\ assets = {}
    /\ controls = SeedControls
    /\ rawData = [r \in RepoSet |-> NoScan]
    /\ tests = << >>
    /\ testControl = {}
    /\ now = 0
    /\ scans = 0
    /\ device = NoDevice
    /\ treatments = EmptyBag
    /\ NoAdapterCalls
    /\ call \in {[fn |-> "upsertAssetsAndRisks", scanResults |-> f, returned |-> FALSE] :
                    f \in CountScanResults}
    /\ lastOp = [kind |-> "init"]

ApplyUpsertAssetsAndRisks ==
    /\ call.fn = "upsertAssetsAndRisks" /\ ~call.returned
    /\ \E ar \in {upsertAssetsAndRisks(risks, assets, controls, CountRepos, call.scanResults)} :
          /\ risks' = ar.risks
          /\ assets' = ar.assets
          /\ controls' = ar.controls
    /\ call' = [call EXCEPT !.returned = TRUE]
    /\ lastOp' = [kind |-> "upsertAssetsAndRisks"]
    /\ UNCHANGED <<evidence, rawData, tests, testControl, now, scans, device, treatments, adapterVars>>

SpecCounts == InitCounts /\ [][ApplyUpsertAssetsAndRisks]_vars

\* The (check, repository) pairs of a run that contribute to a reference: the
\* check feeds it and produced a result for the repository.
ContributingPairs(scanResults, isoRef) ==
    {p \in Feeds(isoRef) \X DOMAIN scanResults : scanResults[p[2]][p[1]].collected}

CompliantPairs(scanResults, isoRef) ==
    {p \in ContributingPairs(scanResults, isoRef) :
        scanResults[p[2]][p[1]].result.compliant = "true"}

\* C29: the counts classified for a reference are the number of contributing
\* (check, repository) pairs of the run, as total, and the number of those
\* whose result is compliant = true, as pass: accessControl and repoMeta both
\* count for A.5.15, accessControl alone for A.5.18.  A reference without a
\* contributing pair keeps the status it has, NOT_IMPLEMENTED in a new organization.
C29_CountsSummedOverPairs ==
    (call.fn = "upsertAssetsAndRisks" /\ call.returned) =>
        \A isoRef \in FedRefs :
            LET total == Cardinality(ContributingPairs(call.scanResults, isoRef))
                pass == Cardinality(CompliantPairs(call.scanResults, isoRef))
            IN  controls[isoRef] =
                    IF total = 0 THEN "NOT_IMPLEMENTED"
                    ELSE IF pass = total THEN "IMPLEMENTED"
                    ELSE IF 2 * pass >= total THEN "PARTIALLY_IMPLEMENTED"
                    ELSE "NOT_IMPLEMENTED"

\* Access control failed in both repositories and the metadata check passed in
\* both: A.5.15 was classified on 2 of 4, A.5.18 on 0 of 2.
C29_Witness ==
    /\ call.fn = "upsertAssetsAndRisks" /\ call.returned
    /\ Cardinality(ContributingPairs(call.scanResults, "A.5.15")) = 4
    /\ Cardinality(CompliantPairs(call.scanResults, "A.5.15")) = 2
    /\ Cardinality(CompliantPairs(call.scanResults, "A.5.18")) = 0
    /\ controls["A.5.15"] = "PARTIALLY_IMPLEMENTED"
    /\ controls["A.5.18"] = "NOT_IMPLEMENTED"

(***************************************************************************)
(* Sequential repository scans of an organization whose automated tests    *)
(* are seeded, one of them attached to a control.                          *)
(***************************************************************************)
Day == 24 * 60 * 60

SEED_DUE_DAYS == 30

\* seedAutomatedTests: creates the tests of names that do not exist yet.
seedAutomatedTests(tst, names, t) ==
    [n \in DOMAIN tst \cup names |->
        IF n \in DOMAIN tst THEN tst[n]
        ELSE [type |-> "Automated", status |-> "Due_soon", lastResult |-> "Not_Run",
              dueDate |-> t + SEED_DUE_DAYS * Day, completedAt |-> NoTime]]

\* The predefined test the scans of this specification run.
SyncTests == {"Company has a version control system"}

\* POST /tests/:id/controls can attach the test to the branch protection control.
InitSync ==
    /\ evidence = EmptyBag
    /\ risks = EmptyBag
    /\ assets = {}
    /\ controls = SeedControls
    /\ rawData = [r \in RepoSet |-> NoScan]
    /\ tests = seedAutomatedTests(<< >>, SyncTests, 0)
    /\ testControl \in {{}, {<<n, "A.8.32">> : n \in SyncTests}}
    /\ now = 0
    /\ scans = 0
    /\ device = NoDevice
    /\ treatments = EmptyBag
    /\ NoAdapterCalls
    /\ call = NoCall
    /\ lastOp = [kind |-> "init"]

NextSync == \E scanResults \in ScanResults : SyncRepos(scanResults, Outcomes(tests))

SpecSync == InitSync /\ [][NextSync]_vars

\* The status the classification gives a pass/total ratio.
RatioStatus(pass, total) ==
    IF pass = total THEN "IMPLEMENTED"
    ELSE IF 2 * pass >= total THEN "PARTIALLY_IMPLEMENTED" ELSE "NOT_IMPLEMENTED"

\* The (repository, check) pairs of the last run that contributed to a reference.
Contributions(isoRef) == {p \in RepoSet \X Feeds(isoRef) : Collected(p[1], p[2])}

Passing(isoRef) == {p \in Contributions(isoRef) : LastCompliant(p[1], p[2]) = "true"}

\* C7: when syncRepos completes, every control whose reference received a
\* contribution in the run has the status that classifies the run's aggregated
\* pass/total ratio; a control with a failing repository is not IMPLEMENTED.
C7_StatusFromRatio ==
    Scanned =>
        \A isoRef \in FedRefs :
            Contributions(isoRef) # {} =>
                controls[isoRef] = RatioStatus(Cardinality(Passing(isoRef)),
                                               Cardinality(Contributions(isoRef)))

(***************************************************************************)
(* Device check-ins: POST /api/agent/checkin and the auto-risk engine.     *)
(***************************************************************************)
COMPLIANCE_RULES ==
    << [field |-> "diskEncryptionEnabled", isoRef |-> "A.8.24",
        riskTitle |-> "Endpoint without disk encryption",
        impact |-> "HIGH", likelihood |-> "MEDIUM", score |-> 12],
       [field |-> "screenLockEnabled", isoRef |-> "A.5.15",
        riskTitle |-> "Device without automatic screen lock",
        impact |-> "MEDIUM", likelihood |-> "MEDIUM", score |-> 9],
       [field |-> "firewallEnabled", isoRef |-> "A.8.20",
        riskTitle |-> "Endpoint firewall disabled",
        impact |-> "MEDIUM", likelihood |-> "LOW", score |-> 6],
       [field |-> "systemIntegrityEnabled", isoRef |-> "A.8.7",
        riskTitle |-> "System Integrity Protection disabled on endpoint",
        impact |-> "HIGH", likelihood |-> "LOW", score |-> 8],
       [field |-> "autoUpdateEnabled", isoRef |-> "A.8.8",
        riskTitle |-> "Automatic OS updates disabled on endpoint",
        impact |-> "MEDIUM", likelihood |-> "HIGH", score |-> 12] >>

\* findControl of the agent routes: findFirst over the controls whose reference contains isoRef.
findControl(ctl, isoRef) ==
    IF MatchingControls(ctl, isoRef) = {} THEN NoControl
    ELSE CHOOSE c \in MatchingControls(ctl, isoRef) : TRUE

\* sha256 of `${asset.id}:${rule.isoRef}:noncompliant`.
noncompliantHash(assetId, isoRef) == <<"sha256", assetId, isoRef, "noncompliant">>

\* !!posture[field]: a field the payload lacks reads as undefined, which is false.
Truthy(posture, field) == field \in DOMAIN posture /\ posture[field]

\* rule.riskTitle, as the one part of the title (a repository title has two parts).
deviceRiskTitle(rule) == <<rule.riskTitle>>

\* The lookup without the title: any OPEN risk of the asset counts as the rule's.
OpenRisksOf_AnyTitle(rk, assetId, title) ==
    {row \in BagToSet(rk) : row.assetId = assetId /\ row.status = "OPEN"}

\* findFirst({assetId, title, status: 'OPEN'}) and the where clause of updateMany.
OpenRisksOf(rk, assetId, title) ==
    {row \in BagToSet(rk) : row.assetId = assetId /\ row.title = title /\ row.status = "OPEN"}

\* The row prisma.risk.create writes for a failing rule.
deviceRiskRow(rule, asset) ==
    [title |-> deviceRiskTitle(rule), description |-> <<"desc", rule.field, asset.name>>,
     impact |-> rule.impact, likelihood |-> rule.likelihood, riskScore |-> rule.score,
     status |-> "OPEN", assetId |-> asset.id]

\* The pass branch without its update.
mitigateOpen_Keep(rk, assetId, title) == rk

\* updateMany({assetId, title, status: 'OPEN'}, {status: 'MITIGATED'}).
mitigateOpen(rk, assetId, title) ==
    LET open == OpenRisksOf(rk, assetId, title)
        Mitigated(row) == [row EXCEPT !.status = "MITIGATED"]
        rows == (BagToSet(rk) \ open) \cup {Mitigated(row) : row \in open}
    IN  [row \in rows |->
            (IF row \in BagToSet(rk) \ open THEN CopiesIn(row, rk) ELSE 0)
            + SumOver({o \in open : Mitigated(o) = row}, [o \in open |-> CopiesIn(o, rk)])]

\* One iteration of the loop of runRiskEngine, on [risks, evidence, treatments].
applyRule(acc, ctl, asset, posture, rule) ==
    LET control == findControl(ctl, rule.isoRef)
        hash == noncompliantHash(asset.id, rule.isoRef)
    IN  IF ~Truthy(posture, rule.field)
        THEN IF OpenRisksOf(acc.risks, asset.id, deviceRiskTitle(rule)) # {} THEN acc
             ELSE [risks |-> acc.risks (+) SetToBag({deviceRiskRow(rule, asset)}),
                   evidence |->
                       IF control # NoControl /\ ~\E e \in BagToSet(acc.evidence) : e.hash = hash
                       THEN acc.evidence (+) SetToBag({[controlId |-> control, hash |-> hash,
                                                        collectedBy |-> "mdm-agent"]})
                       ELSE acc.evidence,
                   treatments |->
                       IF control # NoControl
                       THEN acc.treatments (+) SetToBag({[assetId |-> asset.id,
                                                          title |-> deviceRiskTitle(rule),
                                                          controlId |-> control]})
                       ELSE acc.treatments]
        ELSE [acc EXCEPT !.risks = mitigateOpen(acc.risks, asset.id, deviceRiskTitle(rule))]

RECURSIVE ruleLoop(_, _, _, _, _)
ruleLoop(acc, ctl, asset, posture, i) ==
    IF i > Len(COMPLIANCE_RULES) THEN acc
    ELSE \* each iteration works on the tables the previous one left
         LET next == applyRule(acc, ctl, asset, posture, COMPLIANCE_RULES[i])
         IN  ruleLoop(next, ctl, asset, posture, i + 1)

runRiskEngine(rk, ev, tr, ctl, asset, posture) ==
    ruleLoop([risks |-> rk, evidence |-> ev, treatments |-> tr], ctl, asset, posture, 1)

\* The classification reading the flag name the compliance snapshot reads.
calcComplianceStatus_SipField(posture) ==
    IF \A f \in {"diskEncryptionEnabled", "screenLockEnabled", "firewallEnabled",
                  "systemIntegrityProtectionEnabled", "autoUpdateEnabled"} : Truthy(posture, f)
    THEN "COMPLIANT" ELSE "NON_COMPLIANT"

calcComplianceStatus(posture) ==
    IF \A i \in 1..Len(COMPLIANCE_RULES) : Truthy(posture, COMPLIANCE_RULES[i].field)
    THEN "COMPLIANT" ELSE "NON_COMPLIANT"

NoCompliance == [stored |-> FALSE]

NoPosture == [given |-> FALSE]

\* The endpoint POST /api/agent/enroll leaves behind: asset, enrollment and API key.
EnrolledDevice(revoked) ==
    [enrolled |-> TRUE,
     asset |-> [id |-> "asset-1", name |-> "mac-01", hostname |-> "mac-01", osVersion |-> "14.0"],
     enrollment |-> [apiKey |-> "key-1", revoked |-> revoked, lastSeenAt |-> 0],
     checkins |-> 0,
     compliance |-> NoCompliance]

\* The posture payloads that carry every flag.
Postures ==
    [diskEncryptionEnabled : BOOLEAN, screenLockEnabled : BOOLEAN, firewallEnabled : BOOLEAN,
     systemIntegrityEnabled : BOOLEAN, systemIntegrityProtectionEnabled : BOOLEAN,
     autoUpdateEnabled : BOOLEAN, osVersion : {"15.1"}, hostname : {"mac-01"}]

PostureFlags ==
    {"diskEncryptionEnabled", "screenLockEnabled", "firewallEnabled", "systemIntegrityEnabled",
     "systemIntegrityProtectionEnabled", "autoUpdateEnabled"}

\* Payloads that lack one flag and report every other flag as true.
PartialPostures ==
    {[f \in (PostureFlags \ {missing}) \cup {"osVersion", "hostname"} |->
         CASE f = "osVersion" -> "15.1" [] f = "hostname" -> "mac-01" [] OTHER -> TRUE] :
       missing \in PostureFlags}

FailingPosture ==
    [diskEncryptionEnabled |-> FALSE, screenLockEnabled |-> FALSE, firewallEnabled |-> FALSE,
     systemIntegrityEnabled |-> FALSE, systemIntegrityProtectionEnabled |-> FALSE,
     autoUpdateEnabled |-> FALSE, osVersion |-> "15.1", hostname |-> "mac-01"]

\* Requests with the key and the id of the enrolled endpoint, and the ones that
\* lack a header, name another device, carry another key or have no posture.
CheckinRequests ==
    {[authorization |-> "key-1", deviceId |-> "asset-1", posture |-> p] :
        p \in Postures \cup PartialPostures}
    \cup {[authorization |-> "none", deviceId |-> "asset-1", posture |-> FailingPosture],
          [authorization |-> "key-1", deviceId |-> "none", posture |-> FailingPosture],
          [authorization |-> "key-1", deviceId |-> "asset-9", posture |-> FailingPosture],
          [authorization |-> "key-2", deviceId |-> "asset-1", posture |-> FailingPosture],
          [authorization |-> "key-1", deviceId |-> "asset-1", posture |-> NoPosture]}

\* The handler without the comparison of the key.
checkinStatus_NoKeyCheck(dev, as, req) ==
    IF req.authorization = "none" \/ req.deviceId = "none" THEN 401
    ELSE IF ~(dev.enrolled /\ dev.asset.id = req.deviceId /\ ~dev.enrollment.revoked) THEN 401
    ELSE IF [name |-> dev.asset.name, type |-> "ENDPOINT"] \notin as THEN 404
    ELSE IF req.posture = NoPosture THEN 400
    ELSE 200

\* The HTTP status the handler answers with; 200 is the only one that writes.
checkinStatus(dev, as, req) ==
    IF req.authorization = "none" \/ req.deviceId = "none" THEN 401
    ELSE IF ~(dev.enrolled /\ dev.asset.id = req.deviceId /\ ~dev.enrollment.revoked) THEN 401
    ELSE IF req.authorization # dev.enrollment.apiKey THEN 401
    ELSE IF [name |-> dev.asset.name, type |-> "ENDPOINT"] \notin as THEN 404
    ELSE IF req.posture = NoPosture THEN 400
    ELSE 200

\* The DeviceCompliance row the upsert stores.
complianceRow(posture, t) ==
    [stored |-> TRUE,
     diskEncryptionEnabled |-> Truthy(posture, "diskEncryptionEnabled"),
     screenLockEnabled |-> Truthy(posture, "screenLockEnabled"),
     firewallEnabled |-> Truthy(posture, "firewallEnabled"),
     systemIntegrityEnabled |-> Truthy(posture, "systemIntegrityProtectionEnabled"),
     autoUpdateEnabled |-> Truthy(posture, "autoUpdateEnabled"),
     complianceStatus |-> calcComplianceStatus(posture),
     lastCheckedAt |-> t]

MaxCheckins == 3

\* POST /api/agent/checkin, with the risk engine it starts run to its end.
CheckIn(req) ==
    /\ device.enrolled
    /\ device.checkins < MaxCheckins
    /\ \E status \in {checkinStatus(device, assets, req)} :
          IF status # 200
          THEN /\ lastOp' = [kind |-> "checkin", status |-> status, request |-> req]
               /\ UNCHANGED <<evidence, risks, assets, controls, rawData, tests, testControl, now,
                              scans, device, treatments, adapterVars, call>>
          ELSE \E eng \in {runRiskEngine(risks, evidence, treatments, controls,
                                         device.asset, req.posture)} :
                  /\ device' = [device EXCEPT
                                    !.checkins = @ + 1,
                                    !.asset.osVersion = req.posture.osVersion,
                                    !.asset.hostname = req.posture.hostname,
                                    !.compliance = complianceRow(req.posture, now),
                                    !.enrollment.lastSeenAt = now]
                  /\ risks' = eng.risks
                  /\ evidence' = eng.evidence
                  /\ treatments' = eng.treatments
                  /\ lastOp' = [kind |-> "checkin", status |-> status, request |-> req,
                                complianceStatus |-> calcComplianceStatus(req.posture)]
                  /\ UNCHANGED <<assets, controls, rawData, tests, testControl, now, scans, call, adapterVars>>

InitDevice ==
    /\ evidence = EmptyBag
    /\ risks = EmptyBag
    /\ assets = {[name |-> "mac-01", type |-> "ENDPOINT"]}
    /\ controls = SeedControls
    /\ rawData = [r \in RepoSet |-> NoScan]
    /\ tests = << >>
    /\ testControl = {}
    /\ now = Day
    /\ scans = 0
    /\ device \in {EnrolledDevice(revoked) : revoked \in BOOLEAN}
    /\ treatments = EmptyBag
    /\ NoAdapterCalls
    /\ call = NoCall
    /\ lastOp = [kind |-> "init"]

NextDevice == \E req \in CheckinRequests : CheckIn(req)

SpecDevice == InitDevice /\ [][NextDevice]_vars

\* The MITIGATED rows of the endpoint whose rule the posture fails.
DeviceFailsOnMitigated(rk, posture) ==
    {row \in BagToSet(rk) :
        /\ row.status = "MITIGATED" /\ row.assetId = device.asset.id
        /\ \E i \in 1..Len(COMPLIANCE_RULES) :
              /\ row.title = deviceRiskTitle(COMPLIANCE_RULES[i])
              /\ ~Truthy(posture, COMPLIANCE_RULES[i].field)}

\* C3: a rule that fails for a device with a MITIGATED Risk of the rule's title
\* sets that row to OPEN and creates no row; after any sequence of check-ins
\* there is at most one Risk row per (device asset, rule title).
C3_DeviceRiskReopen ==
    /\ []RiskUnique
    /\ [][(lastOp'.kind = "checkin" /\ lastOp'.status = 200)
            => \A row \in DeviceFailsOnMitigated(risks, lastOp'.request.posture) :
                  ReopenedInPlace(row)]_vars

Ordinal == [LOW |-> 1, MEDIUM |-> 2, HIGH |-> 3, CRITICAL |-> 4]

\* C5: every Risk row the engine creates or reopens has
\* riskScore = ordinal(impact) x ordinal(likelihood), LOW=1 .. CRITICAL=4.
C5_RiskScore ==
    \A row \in BagToSet(risks) : row.riskScore = Ordinal[row.impact] * Ordinal[row.likelihood]

\* The last handler was a check-in that was accepted.
Accepted(op) == op.kind = "checkin" /\ op.status = 200

\* The copies of the endpoint's rows with a title and a status.
DeviceRowCount(rk, title, status) ==
    LET rows == {row \in RisksOf(rk, device.asset.id, title) : row.status = status}
    IN  SumOver(rows, [row \in rows |-> CopiesIn(row, rk)])

\* C13: for a device without risks, one processed check-in creates exactly one
\* OPEN Risk for each rule whose posture field is false and no Risk for a rule
\* whose field is true.
C13_FirstCheckin ==
    [][(/\ Accepted(lastOp')
        /\ \A row \in BagToSet(risks) : row.assetId # device.asset.id)
          => \A i \in 1..Len(COMPLIANCE_RULES) :
                LET title == deviceRiskTitle(COMPLIANCE_RULES[i])
                    field == COMPLIANCE_RULES[i].field
                    posture == lastOp'.request.posture
                IN  IF field \in DOMAIN posture /\ posture[field]
                    THEN RisksOf(risks', device.asset.id, title) = {}
                    ELSE /\ DeviceRowCount(risks', title, "OPEN") = 1
                         /\ DeviceRowCount(risks', title, "MITIGATED") = 0]_vars

\* The first check-in reported only the disk encryption flag as false.
C13_Witness ==
    /\ Accepted(lastOp) /\ device.checkins = 1
    /\ lastOp.request.posture \in Postures
    /\ \A f \in PostureFlags : lastOp.request.posture[f] <=> f # "diskEncryptionEnabled"
    /\ BagCardinality(risks) = 1
    /\ DeviceRowCount(risks, <<"Endpoint without disk encryption">>, "OPEN") = 1

RuleFields ==
    {"diskEncryptionEnabled", "screenLockEnabled", "firewallEnabled", "systemIntegrityEnabled",
     "autoUpdateEnabled"}

\* C14: the response of an accepted check-in says COMPLIANT iff the five rule
\* flags are all true in the payload, NON_COMPLIANT otherwise; a flag the
\* payload lacks counts as false.
C14_ComplianceStatus ==
    Accepted(lastOp) =>
        LET posture == lastOp.request.posture
            allTrue == \A f \in RuleFields : f \in DOMAIN posture /\ posture[f]
        IN  lastOp.complianceStatus = IF allTrue THEN "COMPLIANT" ELSE "NON_COMPLIANT"

\* A payload with the four other flags true and no systemIntegrityEnabled was classified.
C14_Witness ==
    /\ Accepted(lastOp)
    /\ "systemIntegrityEnabled" \notin DOMAIN lastOp.request.posture
    /\ lastOp.complianceStatus = "NON_COMPLIANT"

\* The requests the handler has to reject.
MustReject(req) ==
    \/ req.authorization = "none" \/ req.deviceId = "none"
    \/ req.deviceId # device.asset.id \/ device.enrollment.revoked
    \/ req.authorization # device.enrollment.apiKey
    \/ req.posture = NoPosture

\* C15: a check-in request that is rejected writes nothing: the check-in count,
\* the compliance row, lastSeenAt and the Risk and Evidence tables are unchanged.
C15_RejectedWritesNothing ==
    [][(lastOp'.kind = "checkin" /\ MustReject(lastOp'.request))
          => /\ lastOp'.status # 200
             /\ UNCHANGED <<device, risks, evidence, treatments, assets>>]_vars

\* A request with another key was rejected after check-ins had written risks.
C15_Witness ==
    /\ lastOp.kind = "checkin" /\ lastOp.status = 401
    /\ lastOp.request.authorization = "key-2"
    /\ device.checkins = 2
    /\ BagCardinality(risks) >= 1

\* C16: once a check-in that reports a rule's flag as true is processed, no Risk
\* with the rule's title is OPEN for the device: every OPEN row was set to MITIGATED.
C16_PassMitigatesDevice ==
    /\ [](Accepted(lastOp) =>
            \A i \in 1..Len(COMPLIANCE_RULES) :
                Truthy(lastOp.request.posture, COMPLIANCE_RULES[i].field)
                    => DeviceRowCount(risks, deviceRiskTitle(COMPLIANCE_RULES[i]), "OPEN") = 0)
    /\ [][Accepted(lastOp') =>
            \A i \in 1..Len(COMPLIANCE_RULES) :
                Truthy(lastOp'.request.posture, COMPLIANCE_RULES[i].field)
                    => DeviceRowCount(risks', deviceRiskTitle(COMPLIANCE_RULES[i]), "MITIGATED")
                         = DeviceRowCount(risks, deviceRiskTitle(COMPLIANCE_RULES[i]), "MITIGATED")
                           + DeviceRowCount(risks, deviceRiskTitle(COMPLIANCE_RULES[i]), "OPEN")]_vars

\* The firewall rule failed, and the check-in after it reported the firewall on.
C16_Witness ==
    /\ Accepted(lastOp) /\ device.checkins = 2
    /\ Truthy(lastOp.request.posture, "firewallEnabled")
    /\ DeviceRowCount(risks, <<"Endpoint firewall disabled">>, "MITIGATED") = 1
    /\ DeviceRowCount(risks, <<"Endpoint firewall disabled">>, "OPEN") = 0

\* C30: after an accepted check-in the stored DeviceCompliance row says
\* COMPLIANT iff its diskEncryptionEnabled, screenLockEnabled, firewallEnabled,
\* systemIntegrityEnabled and autoUpdateEnabled columns are all true.
C30_StoredRowConsistent ==
    (Accepted(lastOp) /\ device.compliance.stored) =>
        ((device.compliance.complianceStatus = "COMPLIANT")
            <=> \A f \in RuleFields : device.compliance[f])

(***************************************************************************)
(* The status a read displays: computeStatus, applied on its own to every  *)
(* stored status, due date and completion timestamp around its thresholds. *)
(***************************************************************************)
DUE_SOON_DAYS == 14

TestStatuses == {"Due_soon", "Needs_remediation", "OK", "Overdue"}

\* Date.now() is the argument t; times are seconds, so the window is DUE_SOON_DAYS * Day.
computeStatus(stored, dueDate, completedAt, t) ==
    IF completedAt # NoTime THEN "OK"
    ELSE IF dueDate < t THEN "Overdue"
    ELSE IF dueDate - t <= DUE_SOON_DAYS * Day THEN "Due_soon"
    ELSE IF stored = "Needs_remediation" THEN "Needs_remediation"
    ELSE "Due_soon"

applyStatus(test, t) ==
    [test EXCEPT !.status = computeStatus(test.status, test.dueDate, test.completedAt, t)]

\* The time of the read.
ReadTime == 40 * Day

\* Due dates before, at and after the read, on both sides of the 14-day window.
DueDates ==
    {ReadTime - Day, ReadTime - 1, ReadTime, ReadTime + 1,
     ReadTime + DUE_SOON_DAYS * Day - 1, ReadTime + DUE_SOON_DAYS * Day,
     ReadTime + DUE_SOON_DAYS * Day + 1, ReadTime + 30 * Day}

InitStatus ==
    /\ evidence = EmptyBag
    /\ risks = EmptyBag
    /\ assets = {}
    /\ controls = SeedControls
    /\ rawData = [r \in RepoSet |-> NoScan]
    /\ tests = << >>
    /\ testControl = {}
    /\ now = ReadTime
    /\ scans = 0
    /\ device = NoDevice
    /\ treatments = EmptyBag
    /\ NoAdapterCalls
    /\ call \in {[fn |-> "computeStatus", stored |-> st, dueDate |-> d, completedAt |-> c,
                  returned |-> FALSE, result |-> "none"] :
                    st \in TestStatuses, d \in DueDates, c \in {NoTime, ReadTime - Day}}
    /\ lastOp = [kind |-> "init"]

ApplyComputeStatus ==
    /\ call.fn = "computeStatus" /\ ~call.returned
    /\ call' = [call EXCEPT !.returned = TRUE,
                            !.result = computeStatus(call.stored, call.dueDate, call.completedAt, now)]
    /\ lastOp' = [kind |-> "computeStatus"]
    /\ UNCHANGED <<evidence, risks, assets, controls, rawData, tests, testControl, now, scans,
                   device, treatments, adapterVars>>

SpecStatus == InitStatus /\ [][ApplyComputeStatus]_vars

\* C8: computeStatus returns OK if completedAt is set; otherwise Overdue if
\* dueDate < now; otherwise Needs_remediation if the stored status is
\* Needs_remediation and Due_soon if not, whether the due date is at most 14
\* days away or further away.
C8_ComputeStatus ==
    (call.fn = "computeStatus" /\ call.returned) =>
        call.result = IF call.completedAt # NoTime THEN "OK"
                      ELSE IF call.dueDate < now THEN "Overdue"
                      ELSE IF call.stored = "Needs_remediation" THEN "Needs_remediation"
                      ELSE "Due_soon"

(***************************************************************************)
(* Automated test runs over time: POST /integrations/github/run-tests and  *)
(* the status a read displays afterwards.                                  *)
(***************************************************************************)
RunnerTests == {"MFA on GitHub", "Company has a version control system"}

\* The moments of the runs and reads, for tests seeded at 0 and due after 30
\* days: far from due, 14 days before due, and past due.
Clock == <<0, 10 * Day, 16 * Day, 30 * Day + 1>>

InitTests ==
    /\ evidence = EmptyBag
    /\ risks = EmptyBag
    /\ assets = {}
    /\ controls = SeedControls
    /\ rawData = [r \in RepoSet |-> NoScan]
    /\ tests = seedAutomatedTests(<< >>, RunnerTests, Clock[1])
    /\ testControl = {}
    /\ now = Clock[1]
    /\ scans = 0
    /\ device = NoDevice
    /\ treatments = EmptyBag
    /\ NoAdapterCalls
    /\ call = NoCall
    /\ lastOp = [kind |-> "init"]

\* Time passes to the next moment.
Tick ==
    /\ \E i \in 1..(Len(Clock) - 1) : now = Clock[i] /\ now' = Clock[i + 1]
    /\ UNCHANGED <<evidence, risks, assets, controls, rawData, tests, testControl, scans,
                   device, treatments, adapterVars, call, lastOp>>

NextTests ==
    \/ \E outcomes \in Outcomes(tests) : RunTests(outcomes)
    \/ Tick

SpecTests == InitTests /\ [][NextTests]_vars

\* The status a read at this moment displays for test n.
Displayed(n) == applyStatus(tests[n], now).status

\* C9: after an automated run in which a test's evaluation returned Fail, the
\* status displayed for the test is Needs_remediation, or Overdue once past
\* due, and never OK, also when an earlier run of the test returned Pass.
C9_FailDisplayed ==
    lastOp.kind = "runAutomatedTests" =>
        \A n \in AutomatedTests(tests) :
            tests[n].lastResult = "Fail" =>
                /\ Displayed(n) \in {"Needs_remediation", "Overdue"}
                /\ Displayed(n) = "Overdue" => tests[n].dueDate < now

(***************************************************************************)
(* Reads of the tests between automated runs: GET /api/tests and           *)
(* GET /api/tests/:id.                                                     *)
(***************************************************************************)
\* The status query parameter of GET /; "" when the request has none.
StatusFilters == {"", "OK", "Overdue"}

\* The ids GET /:id is asked for: the rows of the organization and an unknown one.
TestIds == RunnerTests \cup {"unknown"}

\* Mutation: the list handler stores the status it computed.
ListTests_Persist(status) ==
    LET computed == [n \in DOMAIN tests |-> applyStatus(tests[n], now)]
        data == {[id |-> n, test |-> computed[n]] : n \in DOMAIN tests}
    IN  /\ lastOp' = [kind |-> "GET /", code |-> 200,
                      data |-> IF status = "" THEN data
                               ELSE {d \in data : d.test.status = status}]
        /\ tests' = computed
        /\ UNCHANGED <<evidence, risks, assets, controls, rawData, testControl, now, scans,
                       device, treatments, adapterVars, call>>

\* GET /: raw.map(applyStatus), then the status filter on the computed status.
ListTests(status) ==
    LET data == {[id |-> n, test |-> applyStatus(tests[n], now)] : n \in DOMAIN tests}
    IN  /\ lastOp' = [kind |-> "GET /", code |-> 200,
                      data |-> IF status = "" THEN data
                               ELSE {d \in data : d.test.status = status}]
        /\ UNCHANGED <<evidence, risks, assets, controls, rawData, tests, testControl, now, scans,
                       device, treatments, adapterVars, call>>

\* GET /:id: 404 without a row, else applyStatus(test).
GetTest(id) ==
    /\ lastOp' = IF id \notin DOMAIN tests
                 THEN [kind |-> "GET /:id", code |-> 404, data |-> {}]
                 ELSE [kind |-> "GET /:id", code |-> 200,
                       data |-> {[id |-> id, test |-> applyStatus(tests[id], now)]}]
    /\ UNCHANGED <<evidence, risks, assets, controls, rawData, tests, testControl, now, scans,
                   device, treatments, adapterVars, call>>

NextRead ==
    \/ \E outcomes \in Outcomes(tests) : RunTests(outcomes)
    \/ Tick
    \/ \E status \in StatusFilters : ListTests(status)
    \/ \E id \in TestIds : GetTest(id)

SpecRead == InitTests /\ [][NextRead]_vars

IsRead(op) == op.kind \in {"GET /", "GET /:id"}

\* C19: a read of the tests answers with the status computeStatus derives from
\* the stored status, dueDate and completedAt at the time of the read, and
\* leaves every Test row as it was.
C19_ReadsWriteNothing ==
    [][IsRead(lastOp') =>
          /\ tests' = tests
          /\ \A d \in (IF now' = now THEN lastOp'.data ELSE {}) :  \* no read while time passes
                /\ d.test.status = computeStatus(tests[d.id].status, tests[d.id].dueDate,
                                                 tests[d.id].completedAt, now)
                /\ d.test.dueDate = tests[d.id].dueDate
                /\ d.test.completedAt = tests[d.id].completedAt]_vars

\* A read has displayed a status other than the stored one, which is still stored.
C19_Witness ==
    /\ IsRead(lastOp)
    /\ \E d \in lastOp.data : d.test.status # tests[d.id].status

(***************************************************************************)
(* Scans of a repository that was scanned before, in which the branch      *)
(* protection and access control results vary.                             *)
(***************************************************************************)
\* Scan results that differ in the two checks only.
FewScans ==
    {f \in ScanResults :
        \A r \in RepoSet, k \in {"commitSigning", "cicd", "repoMeta"} :
            f[r][k] = CheckData(k, r, "true")}

\* The tables as one syncRepos run over scanResults leaves them in a new organization.
InitRescan ==
    \E scanResults \in FewScans :
       \E ar \in {upsertAssetsAndRisks(EmptyBag, {}, SeedControls, Repos, scanResults)} :
          /\ evidence = evidenceLoop(EmptyBag, SeedControls, scanResults, 1)
          /\ risks = ar.risks
          /\ assets = ar.assets
          /\ controls = ar.controls
          /\ rawData = scanResults
          /\ tests = << >>
          /\ testControl = {}
          /\ now = 0
          /\ scans = 0
          /\ device = NoDevice
          /\ treatments = EmptyBag
          /\ NoAdapterCalls
          /\ call = NoCall
          /\ lastOp = [kind |-> "init"]

NextRescan == \E scanResults \in FewScans : SyncRepos(scanResults, {<< >>})

SpecRescan == InitRescan /\ [][NextRescan]_vars

\* The (repository, check) pairs whose stored hash differs from the hash of the new result.
HashChanged(old, scanResults) ==
    {p \in RepoSet \X CheckKeys :
        /\ old[p[1]] # NoScan
        /\ old[p[1]][p[2]].collected /\ scanResults[p[1]][p[2]].collected
        /\ old[p[1]][p[2]].hash # scanResults[p[1]][p[2]].hash}

\* The Evidence row of a stored check result, for the control its reference resolves to.
EvidenceRowOf(check) ==
    [controlId |-> findControlId(controls, check.result.controlRef), hash |-> check.hash,
     collectedBy |-> "system"]

\* C18 as claimed: a scan in which the hash of a check differs from the one of
\* the scan before, the reference resolving to a control, inserts exactly one
\* Evidence row for (controlId, new hash) and leaves the earlier row unchanged.
C18_NewEvidenceOnChange ==
    [][lastOp'.kind = "syncRepos" =>
          \A p \in HashChanged(rawData, rawData') :
              LET old == EvidenceRowOf(rawData[p[1]][p[2]])
                  new == EvidenceRowOf(rawData'[p[1]][p[2]])
              IN  new.controlId # NoControl =>
                     /\ CopiesIn(new, evidence') = CopiesIn(new, evidence) + 1
                     /\ CopiesIn(old, evidence') = CopiesIn(old, evidence)]_vars

\* C18 amended: such a scan inserts exactly one Evidence row for (controlId, new
\* hash) when no row with that pair exists and none when one exists, as after a
\* change back to an earlier result; every earlier row is left unchanged.
C18_NewEvidenceUnlessKnown ==
    [][lastOp'.kind = "syncRepos" =>
          /\ \A p \in HashChanged(rawData, rawData') :
                LET new == EvidenceRowOf(rawData'[p[1]][p[2]])
                IN  new.controlId # NoControl =>
                       /\ CopiesIn(new, evidence') = 1
                       /\ CopiesIn(new, evidence) \in {0, 1}
          /\ \A e \in BagToSet(evidence) : CopiesIn(e, evidence') = CopiesIn(e, evidence)]_vars

\* The first scan after the initial one saw branch protection changed from
\* compliant to non-compliant: both rows are in place.
C18_Witness ==
    /\ Scanned /\ scans = 1
    /\ Collected(Repos[1], "branchProtection")
    /\ LastCompliant(Repos[1], "branchProtection") = "false"
    /\ BagIn(EvidenceRowOf(CheckData("branchProtection", Repos[1], "true")), evidence)
    /\ BagIn(EvidenceRowOf(CheckData("branchProtection", Repos[1], "false")), evidence)

(***************************************************************************)
(* Repository scans and device check-ins of one organization, interleaved: *)
(* the two writers of the Risk table.                                      *)
(***************************************************************************)
\* Check-ins in which the disk encryption and firewall flags vary, and a rejected one.
FewCheckins ==
    {req \in CheckinRequests :
        \/ req.authorization = "key-2"
        \/ /\ req.authorization = "key-1" /\ req.deviceId = "asset-1"
           /\ req.posture \in Postures
           /\ req.posture.screenLockEnabled /\ req.posture.autoUpdateEnabled
           /\ req.posture.systemIntegrityEnabled
           /\ req.posture.systemIntegrityProtectionEnabled}

InitRisk ==
    /\ evidence = EmptyBag
    /\ risks = EmptyBag
    /\ assets = {[name |-> "mac-01", type |-> "ENDPOINT"]}
    /\ controls = SeedControls
    /\ rawData = [r \in RepoSet |-> NoScan]
    /\ tests = << >>
    /\ testControl = {}
    /\ now = Day
    /\ scans = 0
    /\ device = EnrolledDevice(FALSE)
    /\ treatments = EmptyBag
    /\ NoAdapterCalls
    /\ call = NoCall
    /\ lastOp = [kind |-> "init"]

NextRisk ==
    \/ \E scanResults \in FewScans : SyncRepos(scanResults, {<< >>})
    \/ \E req \in FewCheckins : CheckIn(req)

SpecRisk == InitRisk /\ [][NextRisk]_vars

\* The rows of a subject with a title are the same rows in both tables.
SameRows(rk1, rk2, assetId, title) ==
    \A row \in RisksOf(rk1, assetId, title) \cup RisksOf(rk2, assetId, title) :
        CopiesIn(row, rk1) = CopiesIn(row, rk2)

\* The checks of a scan that report compliant = false for a risk that is OPEN.
FailsOnOpen(rk, scanResults) ==
    {p \in RepoSet \X (1..Len(CHECKS)) :
        /\ scanResults[p[1]][CHECKS[p[2]].key].collected
        /\ scanResults[p[1]][CHECKS[p[2]].key].result.compliant = "false"
        /\ \E row \in RisksOf(rk, p[1], RiskTitle(CHECKS[p[2]], p[1])) : row.status = "OPEN"}

\* The rules a posture fails for a risk of the endpoint that is OPEN.
RulesFailedOnOpen(rk, posture) ==
    {i \in 1..Len(COMPLIANCE_RULES) :
        /\ ~(COMPLIANCE_RULES[i].field \in DOMAIN posture /\ posture[COMPLIANCE_RULES[i].field])
        /\ DeviceRowCount(rk, deviceRiskTitle(COMPLIANCE_RULES[i]), "OPEN") > 0}

\* C17: a Fail verdict for a (subject, check) whose Risk is OPEN writes nothing
\* to the Risk rows of that subject and check, in the repository scan
\* (upsertRisk) and in the device check-in (runRiskEngine) alike.
C17_FailOnOpenWritesNothing ==
    [][/\ lastOp'.kind = "syncRepos" =>
             \A p \in FailsOnOpen(risks, rawData') :
                 SameRows(risks, risks', p[1], RiskTitle(CHECKS[p[2]], p[1]))
       /\ Accepted(lastOp') =>
             \A i \in RulesFailedOnOpen(risks, lastOp'.request.posture) :
                 SameRows(risks, risks', device.asset.id, deviceRiskTitle(COMPLIANCE_RULES[i]))]_vars

\* Two scans have both reported access control as failing (no other result of
\* that check left evidence) and a check-in has failed disk encryption after
\* them: each subject has its one OPEN row.
C17_Witness ==
    /\ scans = 2 /\ device.checkins = 2
    /\ \A c \in {"true", "null"} :
          ~BagIn(EvidenceRowOf(CheckData("accessControl", Repos[1], c)), evidence)
    /\ LastCompliant(Repos[1], "accessControl") = "false"
    /\ Accepted(lastOp) /\ ~lastOp.request.posture.diskEncryptionEnabled
    /\ DeviceRowCount(risks, deviceRiskTitle(COMPLIANCE_RULES[1]), "OPEN") = 1
    /\ \A row \in BagToSet(risks) : row.status = "OPEN" /\ CopiesIn(row, risks) = 1
    /\ \E row \in BagToSet(risks) : row.assetId = Repos[1]

(***************************************************************************)
(* One automated run in which evaluations and writes of the loop can       *)
(* throw, over tests that earlier runs have left in any of their states.   *)
(***************************************************************************)
\* A seeded test as it is, or as an earlier run at time 0 left it.
PriorRows ==
    LET seeded == seedAutomatedTests(<< >>, RunnerTests, 0)
    IN  [RunnerTests -> UNION {{seeded[n]} \cup {testAfterRun(seeded[n], r, 0) : r \in EvalResults} :
                                  n \in RunnerTests}]

InitRunner ==
    /\ evidence = EmptyBag
    /\ risks = EmptyBag
    /\ assets = {}
    /\ controls = SeedControls
    /\ rawData = [r \in RepoSet |-> NoScan]
    /\ tests \in PriorRows
    /\ testControl = {}
    /\ now = Day
    /\ scans = 0
    /\ device = NoDevice
    /\ treatments = EmptyBag
    /\ NoAdapterCalls
    /\ call = NoCall
    /\ lastOp = [kind |-> "init"]

\* The run this specification follows: the first one after Init.
NextRunner ==
    \E outcomes \in [AutomatedTests(tests) -> FaultOutcomes] :
        lastOp.kind = "init" /\ RunTests(outcomes)

SpecRunner == InitRunner /\ [][NextRunner]_vars

C28_ThrowRecordedOnTest ==
    lastOp.kind = "runAutomatedTests" =>
        \A n \in AutomatedTests(tests) :
            lastOp.outcomes[n] = Outcome("throw", "evaluate")
                => /\ tests[n].lastResult = "Fail"
                   /\ tests[n].status = "Needs_remediation"

(***************************************************************************)
(* Adapter calls of several callers on one GitHubTestEvaluator instance.   *)
(* A call runs up to its first await in one step and resumes when the      *)
(* request it awaits is answered.                                          *)
(***************************************************************************)
\* What one page of a GitHub listing can hold when it is requested.
PageData == {"p", "q"}

MaxPages == 2

\* The synchronous start of a fetcher: return the cached value, or request page 1.
StartCall(c, k) ==
    /\ calls[c].pc = "idle"
    /\ IF cache[k].cached
       THEN /\ calls' = [calls EXCEPT ![c] = [pc |-> "returned", key |-> k, acc |-> << >>,
                                              result |-> cache[k].value, overlapped |-> FALSE]]
            /\ UNCHANGED <<cache, fetches>>
       ELSE /\ calls' = [calls EXCEPT ![c] =
                            [pc |-> "awaiting", key |-> k, acc |-> << >>, result |-> << >>,
                             overlapped |-> \E o \in Callers \ {c} :
                                               calls[o].pc = "awaiting" /\ calls[o].key = k]]
            /\ fetches' = [fetches EXCEPT ![k] = @ + 1]
            /\ UNCHANGED cache
    /\ UNCHANGED <<evidence, risks, assets, controls, rawData, tests, testControl, now, scans,
                   device, treatments, call, lastOp>>

GetRepos(c) == StartCall(c, "repos")

GetVulnerabilityAlerts(c) == StartCall(c, "vulnerabilityAlerts:acme/api")

\* axios.get resolves with a page; a full page (100 entries) is followed by the next request.
Respond(c, data, full) ==
    /\ calls[c].pc = "awaiting"
    /\ full => Len(calls[c].acc) + 1 < MaxPages
    /\ \E acc \in {Append(calls[c].acc, data)} :
          IF full
          THEN /\ calls' = [calls EXCEPT ![c].acc = acc]
               /\ UNCHANGED cache
          ELSE /\ cache' = [cache EXCEPT ![calls[c].key] = [cached |-> TRUE, value |-> acc]]
               /\ calls' = [calls EXCEPT ![c].pc = "returned", ![c].acc = acc, ![c].result = acc]
    /\ UNCHANGED <<evidence, risks, assets, controls, rawData, tests, testControl, now, scans,
                   device, treatments, fetches, call, lastOp>>

\* axios.get rejects: getRepos lets the error through, getVulnerabilityAlerts caches [].
Reject(c) ==
    /\ calls[c].pc = "awaiting"
    /\ IF calls[c].key = "repos"
       THEN /\ calls' = [calls EXCEPT ![c].pc = "thrown"]
            /\ UNCHANGED cache
       ELSE /\ cache' = [cache EXCEPT ![calls[c].key] = [cached |-> TRUE, value |-> << >>]]
            /\ calls' = [calls EXCEPT ![c].pc = "returned", ![c].result = << >>]
    /\ UNCHANGED <<evidence, risks, assets, controls, rawData, tests, testControl, now, scans,
                   device, treatments, fetches, call, lastOp>>

InitFlight ==
    /\ evidence = EmptyBag
    /\ risks = EmptyBag
    /\ assets = {}
    /\ controls = SeedControls
    /\ rawData = [r \in RepoSet |-> NoScan]
    /\ tests = << >>
    /\ testControl = {}
    /\ now = 0
    /\ scans = 0
    /\ device = NoDevice
    /\ treatments = EmptyBag
    /\ NoAdapterCalls
    /\ call = NoCall
    /\ lastOp = [kind |-> "init"]

NextFlight ==
    \/ \E c \in Callers : GetRepos(c)
    \/ \E c \in Callers : GetVulnerabilityAlerts(c)
    \/ \E c \in Callers, data \in PageData, full \in BOOLEAN : Respond(c, data, full)
    \/ \E c \in Callers : Reject(c)

SpecFlight == InitFlight /\ [][NextFlight]_vars

\* C10: when two callers request the same adapter key and the second request
\* starts before the first fetch has returned, exactly one fetch is issued and
\* both callers receive the same result.
C10_SingleFlight ==
    \A a \in Callers, b \in Callers :
        (/\ a # b
         /\ calls[a].pc = "returned" /\ calls[b].pc = "returned"
         /\ calls[a].key = calls[b].key
         /\ calls[b].overlapped)
            => /\ fetches[calls[a].key] = 1
               /\ calls[a].result = calls[b].result

(***************************************************************************)
(* One automated-test run: a GitHubTestEvaluator evaluating the predefined *)
(* tests one after the other.  Every request is answered or rejected by    *)
(* the GitHub API; the organization has one repository with one pull       *)
(* request.                                                                *)
(***************************************************************************)
OrgLogin == "acme"

\* The logins of context.linkedGitHubLogins, in lower case as the route builds them.
LinkedLogins == {"alice"}

Rejected == [ok |-> FALSE]

Resolved(data) == [ok |-> TRUE, data |-> data]

NoUser == [login |-> "none"]

AlertsKey(fullName) == "vulnerabilityAlerts:" \o fullName

PullsKey(fullName) == "pullRequests:" \o fullName

CollaboratorsKey(fullName) == "collaborators:" \o fullName

ReviewsKey(fullName, number) == "reviews:" \o fullName \o "#" \o ToString(number)

\* The keys of the cache of one instance.
CacheKeys ==
    {"repos", "orgDetails", "orgMembers"}
    \cup {AlertsKey(r) : r \in RepoSet} \cup {PullsKey(r) : r \in RepoSet}
    \cup {CollaboratorsKey(r) : r \in RepoSet}

\* The resources requested from the API, one key per URL.
ApiKeys ==
    {"repos", "user", "userOrgs", "orgMembers", "orgMFA"}
    \cup {AlertsKey(r) : r \in RepoSet} \cup {PullsKey(r) : r \in RepoSet}
    \cup {CollaboratorsKey(r) : r \in RepoSet} \cup {ReviewsKey(r, 1) : r \in RepoSet}

PullRequest(comments, merged, recent) ==
    [number |-> 1, user |-> "alice", review_comments |-> comments, merged |-> merged,
     recent |-> recent]

\* What the API can answer for a resource: a rejection, or one of a few payloads.
ApiResponses(k) ==
    {Rejected} \cup
    IF k = "repos"
    THEN {Resolved(<<[full_name |-> Repos[1], archived |-> FALSE, private |-> TRUE]>>)}
    ELSE IF k = "user" THEN {Resolved([login |-> "bot"])}
    ELSE IF k = "userOrgs" THEN {Resolved(<< >>), Resolved(<<[login |-> OrgLogin]>>)}
    ELSE IF k = "orgMembers" THEN {Resolved(<<[login |-> "alice"]>>)}
    ELSE IF k = "orgMFA" THEN {Resolved("true"), Resolved("false"), Resolved("undefined")}
    ELSE IF k \in {AlertsKey(r) : r \in RepoSet}
    THEN {Resolved(<< >>), Resolved(<<[severity |-> "high"]>>)}
    ELSE IF k \in {PullsKey(r) : r \in RepoSet}
    THEN {Resolved(<<PullRequest(0, TRUE, TRUE)>>), Resolved(<<PullRequest(1, TRUE, TRUE)>>),
          Resolved(<<PullRequest(0, FALSE, FALSE)>>)}
    ELSE IF k \in {ReviewsKey(r, 1) : r \in RepoSet}
    THEN {Resolved(<< >>), Resolved(<<[user |-> "alice", state |-> "APPROVED"]>>)}
    ELSE {Resolved(<<[login |-> "alice"]>>)}

\* The answers of the API in which only the resources in needed can resolve.
RECURSIVE ApisFor(_)
ApisFor(needed) ==
    IF needed = {} THEN {[k \in ApiKeys |-> Rejected]}
    ELSE LET k == CHOOSE x \in needed : TRUE
         IN  {[f EXCEPT ![k] = r] : f \in ApisFor(needed \ {k}), r \in ApiResponses(k)}

\* axios.get: one more request for resource k.
request(st, k, api) ==
    [st EXCEPT !.fetches[k] = @ + 1,
               !.requested = @ \cup {k},
               !.failed = IF api[k].ok THEN @ ELSE @ \cup {k}]

store(st, key, value) == [st EXCEPT !.cache[key] = [cached |-> TRUE, value |-> value]]

Returned(st, value) == [st |-> st, value |-> value, thrown |-> FALSE]

Thrown(st) == [st |-> st, value |-> << >>, thrown |-> TRUE]

\* getRepos: no try/catch, a rejected request throws and nothing is cached.
getRepos(st, api) ==
    IF st.cache["repos"].cached THEN Returned(st, st.cache["repos"].value)
    ELSE LET s1 == request(st, "repos", api)
         IN  IF api["repos"].ok
             THEN Returned(store(s1, "repos", api["repos"].data), api["repos"].data)
             ELSE Thrown(s1)

\* getOrgDetails: /user, then /user/orgs; any rejection caches {user: null, orgs: []}.
getOrgDetails(st, api) ==
    IF st.cache["orgDetails"].cached THEN Returned(st, st.cache["orgDetails"].value)
    ELSE LET none == [user |-> NoUser, orgs |-> << >>]
             s1 == request(st, "user", api)
         IN  IF ~api["user"].ok THEN Returned(store(s1, "orgDetails", none), none)
             ELSE LET s2 == request(s1, "userOrgs", api)
                      both == [user |-> api["user"].data, orgs |-> api["userOrgs"].data]
                  IN  IF api["userOrgs"].ok THEN Returned(store(s2, "orgDetails", both), both)
                      ELSE Returned(store(s2, "orgDetails", none), none)

\* The data of a resolved response.
Payload(api, k) == IF api[k].ok THEN api[k].data ELSE << >>

\* The fetchers of permission-scoped resources: the cached value, or a request
\* whose data is cached, [] being cached and returned by the catch block.
ScopedFetch(st, key, api, data) ==
    IF st.cache[key].cached THEN Returned(st, st.cache[key].value)
    ELSE LET s1 == request(st, key, api)
         IN  IF api[key].ok THEN Returned(store(s1, key, data), data)
             ELSE Returned(store(s1, key, << >>), << >>)

\* getOrgMembers: one cache slot, whatever the org.
getOrgMembers(st, org, api) == ScopedFetch(st, "orgMembers", api, Payload(api, "orgMembers"))

getVulnerabilityAlerts(st, fullName, api) ==
    ScopedFetch(st, AlertsKey(fullName), api, Payload(api, AlertsKey(fullName)))

\* Mutation: a rejected request is answered with [] and not cached.
getPullRequests_Uncached(st, fullName, api) ==
    LET key == PullsKey(fullName)
        recent == SelectSeq(Payload(api, key), LAMBDA pr : pr.recent)
    IN  IF st.cache[key].cached THEN Returned(st, st.cache[key].value)
        ELSE LET s1 == request(st, key, api)
             IN  IF api[key].ok THEN Returned(store(s1, key, recent), recent)
                 ELSE Returned(s1, << >>)

\* getPullRequests: the closed pull requests updated in the last 30 days.
getPullRequests(st, fullName, api) ==
    LET key == PullsKey(fullName)
    IN  ScopedFetch(st, key, api, SelectSeq(Payload(api, key), LAMBDA pr : pr.recent))

getCollaborators(st, fullName, api) ==
    ScopedFetch(st, CollaboratorsKey(fullName), api, Payload(api, CollaboratorsKey(fullName)))

\* getOrgMFA: requested at every call; null on a rejection or without the field.
getOrgMFA(st, org, api) ==
    LET s1 == request(st, "orgMFA", api)
    IN  Returned(s1, IF api["orgMFA"].ok /\ api["orgMFA"].data # "undefined"
                     THEN api["orgMFA"].data ELSE "null")

\* axios.get of .../pulls/:number/reviews inside its try block: requested at every call.
getReviews(st, fullName, number, api) ==
    LET k == ReviewsKey(fullName, number)
        s1 == request(st, k, api)
    IN  IF api[k].ok THEN Returned(s1, api[k].data) ELSE Thrown(s1)

Evaluation(st, status) == [st |-> st, status |-> status]

\* Math.round(100 * part / total).
Pct(part, total) == (200 * part + total) \div (2 * total)

\* Mutation: a finding is pushed for every matching alert.
RECURSIVE alertsLoop_PerAlert(_, _, _, _, _)
alertsLoop_PerAlert(acc, repos, i, severity, api) ==
    IF i > Len(repos) THEN acc
    ELSE LET alerts == getVulnerabilityAlerts(acc.st, repos[i].full_name, api)
             matching == SelectSeq(alerts.value, LAMBDA a : a.severity = severity)
         IN  alertsLoop_PerAlert(
                 [st |-> alerts.st,
                  findings |-> acc.findings \o [x \in 1..Len(matching) |->
                                                   [repo |-> repos[i].full_name, count |-> 1]]],
                 repos, i + 1, severity, api)

\* The loop of evaluateVulnerabilities over the repositories: acc = [st, findings].
RECURSIVE alertsLoop(_, _, _, _, _)
alertsLoop(acc, repos, i, severity, api) ==
    IF i > Len(repos) THEN acc
    ELSE LET alerts == getVulnerabilityAlerts(acc.st, repos[i].full_name, api)
             matching == SelectSeq(alerts.value, LAMBDA a : a.severity = severity)
         IN  alertsLoop(
                 [st |-> alerts.st,
                  findings |-> IF Len(matching) > 0
                               THEN Append(acc.findings, [repo |-> repos[i].full_name,
                                                          count |-> Len(matching)])
                               ELSE acc.findings],
                 repos, i + 1, severity, api)

\* findings.reduce((s, f) => s + f.count, 0)
RECURSIVE sumCounts(_, _)
sumCounts(findings, i) ==
    IF i > Len(findings) THEN 0 ELSE findings[i].count + sumCounts(findings, i + 1)

evaluateVulnerabilities(st, severity, api) ==
    LET repos == getRepos(st, api)
    IN  IF repos.thrown THEN Evaluation(repos.st, "throw")
        ELSE LET loop == alertsLoop([st |-> repos.st, findings |-> << >>], repos.value, 1,
                                    severity, api)
                 totalUnresolved == sumCounts(loop.findings, 1)
             IN  [st |-> loop.st, status |-> IF totalUnresolved = 0 THEN "Pass" ELSE "Fail",
                  findings |-> loop.findings, totalUnresolved |-> totalUnresolved]

\* The start of the three evaluators of the organization members: the members
\* of the first organization, if there is one.
firstOrgMembers(st, api) ==
    LET details == getOrgDetails(st, api)
    IN  IF Len(details.value.orgs) = 0
        THEN [st |-> details.st, found |-> FALSE, value |-> << >>]
        ELSE LET members == getOrgMembers(details.st, details.value.orgs[1].login, api)
             IN  [st |-> members.st, found |-> TRUE, value |-> members.value]

evaluateGitHubAccountsAssociated(st, api) ==
    LET members == firstOrgMembers(st, api)
    IN  Evaluation(members.st, IF ~members.found THEN "Warning"
                               ELSE IF Len(members.value) > 0 THEN "Pass" ELSE "Warning")

evaluateAllMembersMapToISMS(st, ismsUserLogins, api) ==
    LET members == firstOrgMembers(st, api)
        unmapped == SelectSeq(members.value, LAMBDA m : m.login \notin ismsUserLogins)
    IN  Evaluation(members.st, IF ~members.found THEN "Warning"
                               ELSE IF Len(unmapped) = 0 THEN "Pass" ELSE "Fail")

evaluateDeprovisionedAccounts(st, activeIsmsLogins, api) ==
    LET members == firstOrgMembers(st, api)
        stale == SelectSeq(members.value, LAMBDA m : m.login \notin activeIsmsLogins)
    IN  Evaluation(members.st, IF ~members.found THEN "Warning"
                               ELSE IF Len(stale) = 0 THEN "Pass" ELSE "Fail")

evaluateMFA(st, api) ==
    LET details == getOrgDetails(st, api)
    IN  IF Len(details.value.orgs) = 0 THEN Evaluation(details.st, "Warning")
        ELSE LET mfa == getOrgMFA(details.st, details.value.orgs[1].login, api)
             IN  Evaluation(mfa.st, IF mfa.value = "true" THEN "Pass"
                                    ELSE IF mfa.value = "false" THEN "Fail" ELSE "Warning")

\* The pull requests of every repository, one after the other: acc = [st, prs],
\* prs the pairs <<full_name, pull request>>.
RECURSIVE pullsLoop(_, _, _, _)
pullsLoop(acc, repos, i, api) ==
    IF i > Len(repos) THEN acc
    ELSE LET prs == getPullRequests(acc.st, repos[i].full_name, api)
         IN  pullsLoop([st |-> prs.st,
                        prs |-> acc.prs \o [j \in 1..Len(prs.value) |->
                                               <<repos[i].full_name, prs.value[j]>>]],
                       repos, i + 1, api)

evaluateCodeReviewApproval(st, api) ==
    LET repos == getRepos(st, api)
    IN  IF repos.thrown THEN Evaluation(repos.st, "throw")
        ELSE LET loop == pullsLoop([st |-> repos.st, prs |-> << >>], repos.value, 1, api)
                 Approved(p) == p[2].review_comments > 0 \/ p[2].merged
                 totalPRs == Len(loop.prs)
                 approvedPRs == Len(SelectSeq(loop.prs, Approved))
                 pct == IF totalPRs > 0 THEN Pct(approvedPRs, totalPRs) ELSE 100
             IN  [st |-> loop.st,
                  status |-> IF pct = 100 THEN "Pass"
                             ELSE IF pct >= 80 THEN "Warning" ELSE "Fail",
                  findings |-> SelectSeq(loop.prs, LAMBDA p : ~Approved(p))]

\* The loop of evaluateApplicationChangesReviewed over the pull requests: acc = [st, n].
RECURSIVE reviewedLoop(_, _, _, _)
reviewedLoop(acc, prs, j, api) ==
    IF j > Len(prs) THEN acc
    ELSE LET pr == prs[j][2]
         IN  IF pr.review_comments > 0
             THEN reviewedLoop([acc EXCEPT !.n = @ + 1], prs, j + 1, api)
             ELSE IF pr.merged
                  THEN LET reviews == getReviews(acc.st, prs[j][1], pr.number, api)
                       IN  reviewedLoop([st |-> reviews.st,
                                         n |-> IF ~reviews.thrown /\ Len(reviews.value) > 0
                                               THEN acc.n + 1 ELSE acc.n],
                                        prs, j + 1, api)
                  ELSE reviewedLoop(acc, prs, j + 1, api)

evaluateApplicationChangesReviewed(st, api) ==
    LET repos == getRepos(st, api)
    IN  IF repos.thrown THEN Evaluation(repos.st, "throw")
        ELSE LET pulls == pullsLoop([st |-> repos.st, prs |-> << >>], repos.value, 1, api)
                 loop == reviewedLoop([st |-> pulls.st, n |-> 0], pulls.prs, 1, api)
                 totalPRs == Len(pulls.prs)
                 pct == IF totalPRs > 0 THEN Pct(loop.n, totalPRs) ELSE 100
             IN  Evaluation(loop.st, IF pct >= 90 THEN "Pass"
                                     ELSE IF pct >= 70 THEN "Warning" ELSE "Fail")

\* The loop of evaluateAuthorNotReviewer over the pull requests: acc = [st, n].
RECURSIVE selfReviewLoop(_, _, _, _)
selfReviewLoop(acc, prs, j, api) ==
    IF j > Len(prs) THEN acc
    ELSE LET pr == prs[j][2]
             reviews == getReviews(acc.st, prs[j][1], pr.number, api)
             selfReview == /\ ~reviews.thrown
                           /\ \E x \in 1..Len(reviews.value) :
                                 /\ reviews.value[x].user = pr.user
                                 /\ reviews.value[x].state = "APPROVED"
         IN  selfReviewLoop([st |-> reviews.st, n |-> IF selfReview THEN acc.n + 1 ELSE acc.n],
                            prs, j + 1, api)

evaluateAuthorNotReviewer(st, api) ==
    LET repos == getRepos(st, api)
    IN  IF repos.thrown THEN Evaluation(repos.st, "throw")
        ELSE LET pulls == pullsLoop([st |-> repos.st, prs |-> << >>], repos.value, 1, api)
                 loop == selfReviewLoop([st |-> pulls.st, n |-> 0], pulls.prs, 1, api)
             IN  Evaluation(loop.st, IF loop.n = 0 THEN "Pass" ELSE "Fail")

evaluateVersionControlExists(st, api) ==
    LET repos == getRepos(st, api)
    IN  IF repos.thrown THEN Evaluation(repos.st, "throw")
        ELSE Evaluation(repos.st,
                        IF Len(SelectSeq(repos.value, LAMBDA r : ~r.archived)) > 0
                        THEN "Pass" ELSE "Fail")

evaluateRepoVisibilityPrivate(st, api) ==
    LET repos == getRepos(st, api)
    IN  IF repos.thrown THEN Evaluation(repos.st, "throw")
        ELSE Evaluation(repos.st,
                        IF Len(SelectSeq(repos.value, LAMBDA r : ~r.private)) = 0
                        THEN "Pass" ELSE "Fail")

\* The predefined tests in the order they are seeded, each with the branch of
\* evaluateByName its lower-cased name selects.
GITHUB_AUTOMATED_TESTS ==
    << [name |-> "Medium vulnerabilities identified in packages are addressed (GitHub Repo)",
        branch |-> "medium vulnerab"],
       [name |-> "High vulnerabilities identified in packages are addressed (GitHub Repo)",
        branch |-> "high vulnerab"],
       [name |-> "Critical vulnerabilities identified in packages are addressed (GitHub Repo)",
        branch |-> "critical vulnerab"],
       [name |-> "Low vulnerabilities identified in packages are addressed (GitHub Repo)",
        branch |-> "low vulnerab"],
       [name |-> "GitHub accounts associated with users",
        branch |-> "accounts associated with users"],
       [name |-> "All GitHub members must map to ISMS users", branch |-> "all github members"],
       [name |-> "GitHub accounts deprovisioned when personnel leave", branch |-> "deprovisioned"],
       [name |-> "MFA on GitHub", branch |-> "mfa on github"],
       [name |-> "GitHub code changes were approved or provided justification for exception",
        branch |-> "code changes were approved"],
       [name |-> "Application changes reviewed", branch |-> "application changes reviewed"],
       [name |-> "Author is not the reviewer of pull requests",
        branch |-> "author is not the reviewer"],
       [name |-> "Company has a version control system", branch |-> "version control system"],
       [name |-> "GitHub repository visibility has been set to private",
        branch |-> "repository visibility"] >>

\* A seeded test keeps its link to the integration when PUT /tests/:id renames
\* it; this name contains none of the patterns of evaluateByName.
RenamedTest == [name |-> "Two-factor sign-in", branch |-> ""]

\* The tests of a run in which the eighth seeded test was renamed.
RenamedTests == [GITHUB_AUTOMATED_TESTS EXCEPT ![8] = RenamedTest]

evaluateByName_DefaultPass(st, test, api) ==
    LET n == test.branch
    IN  IF n = "critical vulnerab" THEN evaluateVulnerabilities(st, "critical", api)
        ELSE IF n = "high vulnerab" THEN evaluateVulnerabilities(st, "high", api)
        ELSE IF n = "medium vulnerab" THEN evaluateVulnerabilities(st, "medium", api)
        ELSE IF n = "low vulnerab" THEN evaluateVulnerabilities(st, "low", api)
        ELSE IF n = "accounts associated with users" THEN evaluateGitHubAccountsAssociated(st, api)
        ELSE IF n = "all github members" THEN evaluateAllMembersMapToISMS(st, LinkedLogins, api)
        ELSE IF n = "deprovisioned" THEN evaluateDeprovisionedAccounts(st, LinkedLogins, api)
        ELSE IF n = "mfa on github" THEN evaluateMFA(st, api)
        ELSE IF n = "code changes were approved" THEN evaluateCodeReviewApproval(st, api)
        ELSE IF n = "application changes reviewed"
             THEN evaluateApplicationChangesReviewed(st, api)
        ELSE IF n = "author is not the reviewer" THEN evaluateAuthorNotReviewer(st, api)
        ELSE IF n = "version control system" THEN evaluateVersionControlExists(st, api)
        ELSE IF n = "repository visibility" THEN evaluateRepoVisibilityPrivate(st, api)
        ELSE [st |-> st, status |-> "Pass",
              summary |-> "No evaluator implemented for: \"" \o test.name \o "\"",
              findings |-> << >>]

evaluateByName(st, test, api) ==
    LET n == test.branch
    IN  IF n = "critical vulnerab" THEN evaluateVulnerabilities(st, "critical", api)
        ELSE IF n = "high vulnerab" THEN evaluateVulnerabilities(st, "high", api)
        ELSE IF n = "medium vulnerab" THEN evaluateVulnerabilities(st, "medium", api)
        ELSE IF n = "low vulnerab" THEN evaluateVulnerabilities(st, "low", api)
        ELSE IF n = "accounts associated with users" THEN evaluateGitHubAccountsAssociated(st, api)
        ELSE IF n = "all github members" THEN evaluateAllMembersMapToISMS(st, LinkedLogins, api)
        ELSE IF n = "deprovisioned" THEN evaluateDeprovisionedAccounts(st, LinkedLogins, api)
        ELSE IF n = "mfa on github" THEN evaluateMFA(st, api)
        ELSE IF n = "code changes were approved" THEN evaluateCodeReviewApproval(st, api)
        ELSE IF n = "application changes reviewed"
             THEN evaluateApplicationChangesReviewed(st, api)
        ELSE IF n = "author is not the reviewer" THEN evaluateAuthorNotReviewer(st, api)
        ELSE IF n = "version control system" THEN evaluateVersionControlExists(st, api)
        ELSE IF n = "repository visibility" THEN evaluateRepoVisibilityPrivate(st, api)
        ELSE [st |-> st, status |-> "Warning",
              summary |-> "No evaluator implemented for: \"" \o test.name \o "\"",
              findings |-> << >>]

\* The resources the branch of a test can request.
Needs(test) ==
    LET n == test.branch
    IN  IF n \in {"critical vulnerab", "high vulnerab", "medium vulnerab", "low vulnerab"}
        THEN {"repos"} \cup {AlertsKey(r) : r \in RepoSet}
        ELSE IF n \in {"accounts associated with users", "all github members", "deprovisioned"}
        THEN {"user", "userOrgs", "orgMembers"}
        ELSE IF n = "mfa on github" THEN {"user", "userOrgs", "orgMFA"}
        ELSE IF n = "code changes were approved"
        THEN {"repos"} \cup {PullsKey(r) : r \in RepoSet}
        ELSE IF n \in {"application changes reviewed", "author is not the reviewer"}
        THEN {"repos"} \cup {PullsKey(r) : r \in RepoSet} \cup {ReviewsKey(r, 1) : r \in RepoSet}
        ELSE IF n \in {"version control system", "repository visibility"} THEN {"repos"}
        ELSE {}

\* What evaluateByName hands back to the loop: the evaluation without the
\* adapter it ran on.
Result(ev) == [f \in DOMAIN ev \ {"st"} |-> ev[f]]

\* The adapter as a call finds it.
AdapterState == [cache |-> cache, fetches |-> fetches, requested |-> {}, failed |-> {}]

\* One iteration of the loop of runAutomatedTests: evaluateByName for the next
\* test; a throw is caught by the loop, which goes on with the next test.
EvaluateNext(api) ==
    /\ call.fn = "runAutomatedTests"
    /\ call.i <= Len(call.tests)
    /\ \E ev \in {evaluateByName(AdapterState, call.tests[call.i], api)} :
          /\ cache' = ev.st.cache
          /\ fetches' = ev.st.fetches
          /\ call' = [call EXCEPT !.i = @ + 1, !.failed = @ \cup ev.st.failed]
          /\ lastOp' = [kind |-> "evaluateByName", test |-> call.tests[call.i].name,
                        status |-> ev.status, requested |-> ev.st.requested,
                        failed |-> ev.st.failed, evaluation |-> Result(ev)]
    /\ UNCHANGED <<evidence, risks, assets, controls, rawData, tests, testControl, now, scans,
                   device, treatments, calls>>

\* A call of getCollaborators on the instance; no evaluator of the file makes one.
GetCollaborators(fullName, api) ==
    /\ call.fn = "runAutomatedTests"
    /\ \E r \in {getCollaborators(AdapterState, fullName, api)} :
          /\ cache' = r.st.cache
          /\ fetches' = r.st.fetches
          /\ call' = [call EXCEPT !.failed = @ \cup r.st.failed]
          /\ lastOp' = [kind |-> "getCollaborators", value |-> r.value, status |-> "returned",
                        requested |-> r.st.requested, failed |-> r.st.failed]
    /\ UNCHANGED <<evidence, risks, assets, controls, rawData, tests, testControl, now, scans,
                   device, treatments, calls>>

\* new GitHubTestEvaluator(token), before the loop over the tests.
InitEval ==
    /\ evidence = EmptyBag
    /\ risks = EmptyBag
    /\ assets = {}
    /\ controls = SeedControls
    /\ rawData = [r \in RepoSet |-> NoScan]
    /\ tests = << >>
    /\ testControl = {}
    /\ now = 0
    /\ scans = 0
    /\ device = NoDevice
    /\ treatments = EmptyBag
    /\ cache = [k \in CacheKeys |-> NotCached]
    /\ calls = [c \in Callers |-> IdleCall]
    /\ fetches = [k \in ApiKeys |-> 0]
    /\ \E ts \in {GITHUB_AUTOMATED_TESTS, RenamedTests} :
          call = [fn |-> "runAutomatedTests", tests |-> ts, i |-> 1, failed |-> {}]
    /\ lastOp = [kind |-> "init"]

NextEval ==
    \/ \E i \in 1..Len(GITHUB_AUTOMATED_TESTS) :
          /\ call.fn = "runAutomatedTests" /\ call.i = i
          /\ \E api \in ApisFor(Needs(call.tests[i])) : EvaluateNext(api)
    \/ \E r \in RepoSet : \E api \in ApisFor({CollaboratorsKey(r)}) : GetCollaborators(r, api)

SpecEval == InitEval /\ [][NextEval]_vars

\* C11: within one run, each external resource (repository list, organization
\* details, organization members, alerts and pull requests of a repository,
\* reviews of a pull request, MFA setting of the organization) is requested
\* from the GitHub API at most once.  Stated for the runs in which every
\* request was answered, where a second request cannot be a retry.
C11_RequestedAtMostOnce ==
    (call.fn = "runAutomatedTests" /\ call.failed = {}) =>
        \A k \in DOMAIN fetches : fetches[k] <= 1

\* The permission-scoped resources: their fetchers catch a rejection.
ScopedKeys ==
    {"orgMembers"} \cup {AlertsKey(r) : r \in RepoSet} \cup {PullsKey(r) : r \in RepoSet}
    \cup {CollaboratorsKey(r) : r \in RepoSet}

\* C20: when the request for a permission-scoped resource (alerts, pull
\* requests or collaborators of a repository, members of the organization) is
\* rejected, the empty list is cached under its key, no later call for the key
\* requests it again, and the evaluation that asked returns a verdict.
C20_ScopedFailureCached ==
    [][\A k \in ScopedKeys :
          /\ (k \in lastOp'.failed /\ fetches'[k] # fetches[k])
                => /\ cache'[k] = [cached |-> TRUE, value |-> << >>]
                   /\ lastOp'.status # "throw"
                   /\ lastOp'.kind = "getCollaborators" => lastOp'.value = << >>
          /\ cache[k].cached => (fetches'[k] = fetches[k] /\ cache'[k] = cache[k])]_vars

\* The pull requests could not be listed for the first check that asked; the
\* two later checks of the pull requests returned a verdict without a request.
C20_Witness ==
    /\ lastOp.kind = "evaluateByName"
    /\ lastOp.test = "Author is not the reviewer of pull requests"
    /\ lastOp.status = "Pass" /\ lastOp.requested = {}
    /\ PullsKey(Repos[1]) \in call.failed
    /\ fetches[PullsKey(Repos[1])] = 1

MaxSeeds == 3

\* The names of GITHUB_AUTOMATED_TESTS in routes.ts, in the order of the list.
SeedNames == [i \in 1..Len(GITHUB_AUTOMATED_TESTS) |-> GITHUB_AUTOMATED_TESTS[i].name]

\* The id of the integration row of the organization, and no integration.
GitHubIntegration == "github"

NoIntegration == "none"

\* The row prisma.test.create writes for a predefined name.
SeededTest(name, t) ==
    [name |-> name, category |-> "Engineering", type |-> "Automated", status |-> "Due_soon",
     lastResult |-> "Not_Run", dueDate |-> t + SEED_DUE_DAYS * Day,
     integrationId |-> GitHubIntegration]

\* A test created through POST /tests: no integration is attached to it.
ManualTest(name) ==
    [name |-> name, category |-> "Custom", type |-> "Document", status |-> "Due_soon",
     lastResult |-> "Not_Run", dueDate |-> SEED_DUE_DAYS * Day, integrationId |-> NoIntegration]

\* findFirst({name, organizationId, integrationId})
ExistingTest(table, name) ==
    \E row \in BagToSet(table) : row.name = name /\ row.integrationId = GitHubIntegration

\* The loop of seedAutomatedTests creates a row although one exists.
RECURSIVE seedLoop_Always(_, _, _)
seedLoop_Always(acc, i, t) ==
    IF i > Len(SeedNames) THEN acc
    ELSE seedLoop_Always([table |-> acc.table (+) SetToBag({SeededTest(SeedNames[i], t)}),
                          history |-> acc.history + 1, created |-> acc.created + 1],
                         i + 1, t)

\* The loop of seedAutomatedTests from name i on: the Test table, the number
\* of TestHistory rows and the counter created.
RECURSIVE seedLoop(_, _, _)
seedLoop(acc, i, t) ==
    IF i > Len(SeedNames) THEN acc
    ELSE seedLoop(IF ExistingTest(acc.table, SeedNames[i]) THEN acc
                  ELSE [table |-> acc.table (+) SetToBag({SeededTest(SeedNames[i], t)}),
                        history |-> acc.history + 1, created |-> acc.created + 1],
                  i + 1, t)

\* prisma.test.count({organizationId, integrationId})
LinkedCount(table) ==
    BagCardinality([row \in {r \in BagToSet(table) : r.integrationId = GitHubIntegration}
                       |-> table[row]])

\* POST /github/seed-tests: 400 unless the integration is ACTIVE, otherwise
\* seedAutomatedTests between two counts of the linked tests.
PostSeedTests ==
    /\ call.fn = "seedAutomatedTests"
    /\ call.seeds < MaxSeeds
    /\ IF call.integration # "ACTIVE"
       THEN /\ lastOp' = [kind |-> "seed-tests", status |-> 400]
            /\ call' = [call EXCEPT !.seeds = @ + 1]
            /\ UNCHANGED tests
       ELSE \E acc \in {seedLoop([table |-> tests, history |-> call.history, created |-> 0],
                                 1, now)} :
               /\ tests' = acc.table
               /\ call' = [call EXCEPT !.seeds = @ + 1, !.history = acc.history]
               /\ lastOp' = [kind |-> "seed-tests", status |-> 200,
                             created |-> LinkedCount(acc.table) - LinkedCount(tests),
                             skipped |-> Len(SeedNames)
                                         - (LinkedCount(acc.table) - LinkedCount(tests))]
    /\ UNCHANGED <<evidence, risks, assets, controls, rawData, testControl, now, scans, device,
                   treatments, adapterVars>>

\* The names a test created by hand has in this specification: one of the
\* predefined names and one of its own.
ManualNames == {"MFA on GitHub", "Quarterly access review"}

\* The organization before a call: DELETE /tests/:id has left any part of the
\* seeded tests, POST /tests has created tests of its own.
InitSeed ==
    /\ evidence = EmptyBag
    /\ risks = EmptyBag
    /\ assets = {}
    /\ controls = SeedControls
    /\ rawData = [r \in RepoSet |-> NoScan]
    /\ \E left \in SUBSET {SeedNames[i] : i \in 1..Len(SeedNames)}, byHand \in SUBSET ManualNames :
          tests = SetToBag({SeededTest(n, 0) : n \in left})
                  (+) SetToBag({ManualTest(n) : n \in byHand})
    /\ testControl = {}
    /\ now = 0
    /\ scans = 0
    /\ device = NoDevice
    /\ treatments = EmptyBag
    /\ NoAdapterCalls
    /\ \E status \in {"ACTIVE", "DISCONNECTED"} :
          call = [fn |-> "seedAutomatedTests", integration |-> status, seeds |-> 0, history |-> 0]
    /\ lastOp = [kind |-> "init"]

NextSeed == PostSeedTests

SpecSeed == InitSeed /\ [][NextSeed]_vars

\* The linked rows of a predefined name.
LinkedRows(table, name) ==
    BagCardinality([row \in {r \in BagToSet(table) :
                                r.name = name /\ r.integrationId = GitHubIntegration}
                       |-> table[row]])

\* C22: for an organization with an ACTIVE GitHub integration, after every
\* call of seedAutomatedTests exactly one Test row linked to the integration
\* exists for each of the 13 predefined names, and every call after the first
\* creates no Test row and no TestHistory row.
C22_SeedIdempotent ==
    [][(call.fn = "seedAutomatedTests" /\ call.integration = "ACTIVE" /\ call'.seeds # call.seeds)
          => /\ Len(SeedNames) = 13
             /\ \A i \in 1..Len(SeedNames) : LinkedRows(tests', SeedNames[i]) = 1
             /\ call.seeds >= 1 => /\ tests' = tests
                                   /\ call'.history = call.history
                                   /\ lastOp'.created = 0]_vars

\* A second call on an organization whose first call had to create tests, one
\* of them under the name of a test created by hand.
C22_Witness ==
    /\ call.fn = "seedAutomatedTests" /\ call.integration = "ACTIVE"
    /\ call.seeds = 2
    /\ call.history > 0
    /\ BagIn(ManualTest("MFA on GitHub"), tests)
    /\ lastOp.kind = "seed-tests" /\ lastOp.created = 0

(***************************************************************************)
(* POST /api/agent/enroll, one step per database call, for two requests    *)
(* that can be in flight together.  Every await of the handler is a point  *)
(* at which the other request can run.                                     *)
(***************************************************************************)
MaxEnrolls == 3

EnrollToken == "tok-1"

\* An EnrollmentToken row: not used yet, or used at the given time.
TokenRow(usedAt, expiresAt) == [token |-> EnrollToken, usedAt |-> usedAt, expiresAt |-> expiresAt]

\* The bodies of the requests: the token of the row or another one, and the
\* host that enrolls; the serial number goes with the host.
EnrollRequests ==
    [enrollmentToken : {EnrollToken, "tok-9", "none"}, hostname : {"mac-01", "mac-02"}]

\* A request that is not in flight.
NoEnroll == [pc |-> "idle"]

\* The handler up to its first await: 400 without a token or host name,
\* otherwise findUnique is on its way.
EnrollStart(c, req) ==
    /\ calls[c].pc \in {"idle", "done"}
    /\ device.requests < MaxEnrolls
    /\ device' = [device EXCEPT !.requests = @ + 1]
    /\ IF req.enrollmentToken = "none"
       THEN /\ calls' = [calls EXCEPT ![c] = [pc |-> "done", request |-> req, status |-> 400]]
            /\ lastOp' = [kind |-> "enroll", caller |-> c, status |-> 400]
       ELSE /\ calls' = [calls EXCEPT ![c] = [pc |-> "findToken", request |-> req,
                                              rid |-> device.requests + 1]]
            /\ lastOp' = [kind |-> "enroll", caller |-> c, status |-> 0]
    /\ UNCHANGED <<evidence, risks, assets, controls, rawData, tests, testControl, now, scans,
                   treatments, cache, fetches, call>>

\* The handler marks the token and reads its mark in one step.
EnrollValidate_Claim(c) ==
    /\ calls[c].pc = "findToken"
    /\ \E status \in {IF calls[c].request.enrollmentToken # device.token.token THEN 401
                      ELSE IF device.token.usedAt # NoTime THEN 409
                      ELSE IF now > device.token.expiresAt THEN 410
                      ELSE 0} :
          /\ calls' = [calls EXCEPT ![c] = IF status = 0 THEN [@ EXCEPT !.pc = "findAsset"]
                                           ELSE [@ EXCEPT !.pc = "done"] @@ [status |-> status]]
          /\ device' = IF status = 0 THEN [device EXCEPT !.token.usedAt = now] ELSE device
          /\ lastOp' = [kind |-> "enroll", caller |-> c, status |-> status]
    /\ UNCHANGED <<evidence, risks, assets, controls, rawData, tests, testControl, now, scans,
                   treatments, cache, fetches, call>>

\* findUnique({token}) and the three checks on the row it returned.
EnrollValidate(c) ==
    /\ calls[c].pc = "findToken"
    /\ \E status \in {IF calls[c].request.enrollmentToken # device.token.token THEN 401
                      ELSE IF device.token.usedAt # NoTime THEN 409
                      ELSE IF now > device.token.expiresAt THEN 410
                      ELSE 0} :
          /\ calls' = [calls EXCEPT ![c] = IF status = 0 THEN [@ EXCEPT !.pc = "findAsset"]
                                           ELSE [@ EXCEPT !.pc = "done"] @@ [status |-> status]]
          /\ lastOp' = [kind |-> "enroll", caller |-> c, status |-> status]
    /\ UNCHANGED <<evidence, risks, assets, controls, rawData, tests, testControl, now, scans,
                   device, treatments, cache, fetches, call>>

\* asset.findFirst: an ENDPOINT asset of the host, if there is one.
EnrollFindAsset(c) ==
    /\ calls[c].pc = "findAsset"
    /\ LET found == {a \in assets : a.hostname = calls[c].request.hostname /\ a.type = "ENDPOINT"}
       IN  IF found = {}
           THEN calls' = [calls EXCEPT ![c] = [@ EXCEPT !.pc = "createAsset"]]
           ELSE \E a \in found :
                   calls' = [calls EXCEPT ![c] = [@ EXCEPT !.pc = "upsertEnrollment"]
                                                  @@ [assetId |-> a.id]]
    /\ UNCHANGED <<evidence, risks, assets, controls, rawData, tests, testControl, now, scans,
                   device, treatments, cache, fetches, call, lastOp>>

\* asset.create for a host that had no asset; asset.update of a found asset
\* writes the values the asset of the host already has.
EnrollCreateAsset(c) ==
    /\ calls[c].pc = "createAsset"
    /\ assets' = assets \cup {[id |-> calls[c].rid, name |-> calls[c].request.hostname,
                               hostname |-> calls[c].request.hostname, type |-> "ENDPOINT"]}
    /\ calls' = [calls EXCEPT ![c] = [@ EXCEPT !.pc = "upsertEnrollment"]
                                     @@ [assetId |-> calls[c].rid]]
    /\ UNCHANGED <<evidence, risks, controls, rawData, tests, testControl, now, scans, device,
                   treatments, cache, fetches, call, lastOp>>

\* deviceEnrollment.upsert: the hash of a fresh API key for the asset.
EnrollUpsertEnrollment(c) ==
    /\ calls[c].pc = "upsertEnrollment"
    /\ device' = [device EXCEPT
                     !.enrollments = [a \in DOMAIN @ \cup {calls[c].assetId} |->
                                         IF a = calls[c].assetId THEN calls[c].rid ELSE @[a]]]
    /\ calls' = [calls EXCEPT ![c] = [@ EXCEPT !.pc = "markUsed"]]
    /\ UNCHANGED <<evidence, risks, assets, controls, rawData, tests, testControl, now, scans,
                   treatments, cache, fetches, call, lastOp>>

\* enrollmentToken.update({usedAt}) and the 201 answer with the API key.
EnrollMarkUsed(c) ==
    /\ calls[c].pc = "markUsed"
    /\ device' = [device EXCEPT !.token.usedAt = now, !.issued = @ \cup {calls[c].rid}]
    /\ calls' = [calls EXCEPT ![c] = [@ EXCEPT !.pc = "done"] @@ [status |-> 201]]
    /\ lastOp' = [kind |-> "enroll", caller |-> c, status |-> 201, apiKey |-> calls[c].rid]
    /\ UNCHANGED <<evidence, risks, assets, controls, rawData, tests, testControl, now, scans,
                   treatments, cache, fetches, call>>

\* A token created by POST /mdm/tokens: unused, used by an earlier
\* enrollment, or past its expiry.
InitEnroll ==
    /\ evidence = EmptyBag
    /\ risks = EmptyBag
    /\ assets = {}
    /\ controls = SeedControls
    /\ rawData = [r \in RepoSet |-> NoScan]
    /\ tests = << >>
    /\ testControl = {}
    /\ now = Day
    /\ scans = 0
    /\ \E row \in {TokenRow(NoTime, 2 * Day), TokenRow(0, 2 * Day), TokenRow(NoTime, 0)} :
          device = [enrolled |-> FALSE, token |-> row, enrollments |-> << >>, issued |-> {},
                    requests |-> 0]
    /\ treatments = EmptyBag
    /\ cache = [k \in AdapterKeys |-> NotCached]
    /\ calls = [c \in Callers |-> NoEnroll]
    /\ fetches = [k \in AdapterKeys |-> 0]
    /\ call = NoCall
    /\ lastOp = [kind |-> "init"]

NextEnroll ==
    \/ \E c \in Callers, req \in EnrollRequests : EnrollStart(c, req)
    \/ \E c \in Callers : EnrollValidate(c)
    \/ \E c \in Callers : EnrollFindAsset(c)
    \/ \E c \in Callers : EnrollCreateAsset(c)
    \/ \E c \in Callers : EnrollUpsertEnrollment(c)
    \/ \E c \in Callers : EnrollMarkUsed(c)

SpecEnroll == InitEnroll /\ [][NextEnroll]_vars

\* C23: an enrollment token is accepted by at most one successful enroll
\* request: at most one API key is issued for it, also when two requests
\* present the unused token concurrently.
C23_TokenAcceptedOnce ==
    Cardinality(device.issued) <= 1

(***************************************************************************)
(* runRiskEngine, one step per database call.  POST /checkin starts it and *)
(* answers without awaiting it, so the executions of two check-ins of one  *)
(* device can be under way together.                                       *)
(***************************************************************************)
\* The postures of the check-ins: disk encryption and firewall on or off, every
\* other flag on.
EnginePostures ==
    {p \in Postures : /\ p.screenLockEnabled /\ p.systemIntegrityEnabled
                      /\ p.systemIntegrityProtectionEnabled /\ p.autoUpdateEnabled}

\* The rule an execution is at.
EngineRule(c) == COMPLIANCE_RULES[calls[c].i]

\* The loop goes on with the rule after, or the execution is over.
EngineNextRule(c) ==
    IF calls[c].i < Len(COMPLIANCE_RULES)
    THEN [calls[c] EXCEPT !.pc = "findControl", !.i = @ + 1]
    ELSE [calls[c] EXCEPT !.pc = "done"]

\* POST /checkin of the enrolled device, accepted: the snapshot is stored and
\* runRiskEngine(asset, posture) is started, not awaited.
EngineStart(c, posture) ==
    /\ calls[c].pc = "idle"
    /\ device' = [device EXCEPT !.checkins = @ + 1,
                                !.compliance = complianceRow(posture, now),
                                !.enrollment.lastSeenAt = now]
    /\ calls' = [calls EXCEPT ![c] = [pc |-> "findControl", i |-> 1, posture |-> posture,
                                      control |-> NoControl]]
    /\ lastOp' = [kind |-> "checkin", status |-> 200, caller |-> c]
    /\ UNCHANGED <<evidence, risks, assets, controls, rawData, tests, testControl, now, scans,
                   treatments, cache, fetches, call>>

\* await findControl(organizationId, rule.isoRef), then the branch on passing.
EngineFindControl(c) ==
    /\ calls[c].pc = "findControl"
    /\ calls' = [calls EXCEPT ![c] =
                    [@ EXCEPT !.control = findControl(controls, EngineRule(c).isoRef),
                              !.pc = IF Truthy(calls[c].posture, EngineRule(c).field)
                                     THEN "updateMany" ELSE "findRisk"]]
    /\ UNCHANGED <<evidence, risks, assets, controls, rawData, tests, testControl, now, scans,
                   device, treatments, cache, fetches, call, lastOp>>

\* await prisma.risk.findFirst({assetId, title, status: 'OPEN'})
EngineFindRisk(c) ==
    /\ calls[c].pc = "findRisk"
    /\ calls' = [calls EXCEPT ![c] =
                    IF OpenRisksOf(risks, device.asset.id, deviceRiskTitle(EngineRule(c))) # {}
                    THEN EngineNextRule(c)
                    ELSE [@ EXCEPT !.pc = "createRisk"]]
    /\ UNCHANGED <<evidence, risks, assets, controls, rawData, tests, testControl, now, scans,
                   device, treatments, cache, fetches, call, lastOp>>

\* await prisma.risk.create
EngineCreateRisk(c) ==
    /\ calls[c].pc = "createRisk"
    /\ risks' = risks (+) SetToBag({deviceRiskRow(EngineRule(c), device.asset)})
    /\ calls' = [calls EXCEPT ![c] = IF calls[c].control # NoControl
                                     THEN [@ EXCEPT !.pc = "findEvidence"]
                                     ELSE EngineNextRule(c)]
    /\ lastOp' = [kind |-> "risk.create", caller |-> c, title |-> deviceRiskTitle(EngineRule(c))]
    /\ UNCHANGED <<evidence, assets, controls, rawData, tests, testControl, now, scans, device,
                   treatments, cache, fetches, call>>

\* await prisma.evidence.findFirst({hash})
EngineFindEvidence(c) ==
    /\ calls[c].pc = "findEvidence"
    /\ calls' = [calls EXCEPT ![c] =
                    [@ EXCEPT !.pc =
                        IF \E e \in BagToSet(evidence) :
                              e.hash = noncompliantHash(device.asset.id, EngineRule(c).isoRef)
                        THEN "createTreatment" ELSE "createEvidence"]]
    /\ UNCHANGED <<evidence, risks, assets, controls, rawData, tests, testControl, now, scans,
                   device, treatments, cache, fetches, call, lastOp>>

\* await prisma.evidence.create
EngineCreateEvidence(c) ==
    /\ calls[c].pc = "createEvidence"
    /\ evidence' = evidence (+) SetToBag({[controlId |-> calls[c].control,
                                           hash |-> noncompliantHash(device.asset.id,
                                                                     EngineRule(c).isoRef),
                                           collectedBy |-> "mdm-agent"]})
    /\ calls' = [calls EXCEPT ![c] = [@ EXCEPT !.pc = "createTreatment"]]
    /\ UNCHANGED <<risks, assets, controls, rawData, tests, testControl, now, scans, device,
                   treatments, cache, fetches, call, lastOp>>

\* await prisma.riskTreatment.create(...).catch(() => {})
EngineCreateTreatment(c) ==
    /\ calls[c].pc = "createTreatment"
    /\ treatments' = treatments (+) SetToBag({[assetId |-> device.asset.id,
                                               title |-> deviceRiskTitle(EngineRule(c)),
                                               controlId |-> calls[c].control]})
    /\ calls' = [calls EXCEPT ![c] = EngineNextRule(c)]
    /\ UNCHANGED <<evidence, risks, assets, controls, rawData, tests, testControl, now, scans,
                   device, cache, fetches, call, lastOp>>

\* await prisma.risk.updateMany({assetId, title, status: 'OPEN'}, MITIGATED)
EngineUpdateMany(c) ==
    /\ calls[c].pc = "updateMany"
    /\ risks' = mitigateOpen(risks, device.asset.id, deviceRiskTitle(EngineRule(c)))
    /\ calls' = [calls EXCEPT ![c] = EngineNextRule(c)]
    /\ UNCHANGED <<evidence, assets, controls, rawData, tests, testControl, now, scans, device,
                   treatments, cache, fetches, call, lastOp>>

\* The enrolled device before the two check-ins: no risk yet, or the disk
\* encryption risk of an earlier check-in, OPEN or MITIGATED.
InitEngine ==
    /\ evidence = EmptyBag
    /\ \E earlier \in {{}, {"OPEN"}, {"MITIGATED"}} :
          risks = SetToBag({[deviceRiskRow(COMPLIANCE_RULES[1], EnrolledDevice(FALSE).asset)
                                EXCEPT !.status = s] : s \in earlier})
    /\ assets = {[name |-> "mac-01", type |-> "ENDPOINT"]}
    /\ controls = SeedControls
    /\ rawData = [r \in RepoSet |-> NoScan]
    /\ tests = << >>
    /\ testControl = {}
    /\ now = Day
    /\ scans = 0
    /\ device = EnrolledDevice(FALSE)
    /\ treatments = EmptyBag
    /\ cache = [k \in AdapterKeys |-> NotCached]
    /\ calls = [c \in Callers |-> [pc |-> "idle"]]
    /\ fetches = [k \in AdapterKeys |-> 0]
    /\ call = NoCall
    /\ lastOp = [kind |-> "init"]

NextEngine ==
    \/ \E c \in Callers, posture \in EnginePostures : EngineStart(c, posture)
    \/ \E c \in Callers : EngineFindControl(c)
    \/ \E c \in Callers : EngineFindRisk(c)
    \/ \E c \in Callers : EngineCreateRisk(c)
    \/ \E c \in Callers : EngineFindEvidence(c)
    \/ \E c \in Callers : EngineCreateEvidence(c)
    \/ \E c \in Callers : EngineCreateTreatment(c)
    \/ \E c \in Callers : EngineUpdateMany(c)

SpecEngine == InitEngine /\ [][NextEngine]_vars

\* The OPEN Risk rows of the device under the title of a rule.
OpenCount(rule) ==
    LET open == OpenRisksOf(risks, device.asset.id, deviceRiskTitle(rule))
    IN  SumOver(open, [o \in open |-> CopiesIn(o, risks)])

\* C27: for the device and each rule, at every moment at most one OPEN Risk
\* row with the title of the rule exists, also while the risk-engine
\* executions of two check-ins are interleaved.
C27_OneOpenRiskPerRule ==
    \A i \in 1..Len(COMPLIANCE_RULES) : OpenCount(COMPLIANCE_RULES[i]) <= 1

(***************************************************************************)
(* Two syncRepos runs of one organization under way together (the daily    *)
(* cron run and POST /github/scan), one step per database call that reads  *)
(* or writes the Evidence, Asset or Risk table.  Assets carry an id here,  *)
(* so that two rows of one name are two assets.                            *)
(***************************************************************************)
\* What the two runs can collect for the repository: branch protection and
\* commit signing compliant or not, the other checks compliant.
OverlapScans ==
    {s \in scanRepo(Repos[1]) :
        /\ s.branchProtection.collected
        /\ \A k \in {"cicd", "accessControl", "repoMeta"} : s[k] = CheckData(k, Repos[1], "true")}

\* The checks of a scan that upsertEvidenceForScan goes through.
ScanChecks(scanData) ==
    SelectSeq(<<scanData.branchProtection, scanData.commitSigning, scanData.cicd,
                scanData.accessControl, scanData.repoMeta>>, LAMBDA ch : ch.collected)

\* The first check from j on whose result is compliant === false; 0 if none.
RECURSIVE NextFailing(_, _)
NextFailing(scanData, j) ==
    IF j > Len(CHECKS) THEN 0
    ELSE IF scanData[CHECKS[j].key].collected
            /\ scanData[CHECKS[j].key].result.compliant = "false" THEN j
    ELSE NextFailing(scanData, j + 1)

\* The Asset rows of a name and type.
AssetsNamed(as, name, type) == {a \in as : a.name = name /\ a.type = type}

\* The run goes on after the risk of check j: the next failing check, or
\* updateControlStatuses when there is none.
AfterCheck(run, j) ==
    IF NextFailing(run.scan, j + 1) = 0 THEN [run EXCEPT !.pc = "updateControlStatuses"]
    ELSE [run EXCEPT !.pc = "risk.findFirst", !.k = NextFailing(run.scan, j + 1)]

\* The run goes on after the evidence of check k.
AfterEvidence(run) ==
    IF run.k < Len(ScanChecks(run.scan)) THEN [run EXCEPT !.pc = "evidence.findFirst", !.k = @ + 1]
    ELSE [run EXCEPT !.pc = "orgAsset.findFirst"]

\* syncRepos up to upsertEvidenceForScan: the repository is scanned and its
\* GitHubRepo row is upserted with the raw data.
OverlapStart(c, scanData) ==
    /\ calls[c].pc = "idle"
    /\ rawData' = [rawData EXCEPT ![Repos[1]] = scanData]
    /\ calls' = [calls EXCEPT ![c] = [pc |-> "evidence.findFirst", scan |-> scanData, k |-> 1,
                                      assetId |-> "none", existing |-> << >>]]
    /\ lastOp' = [kind |-> "syncRepos", caller |-> c]
    /\ UNCHANGED <<evidence, risks, assets, controls, tests, testControl, now, scans, device,
                   treatments, cache, fetches, call>>

\* findControlId and evidence.findFirst({controlId, hash}) for check k.
OverlapFindEvidence(c) ==
    /\ calls[c].pc = "evidence.findFirst"
    /\ LET check == ScanChecks(calls[c].scan)[calls[c].k]
           controlId == findControlId(controls, check.result.controlRef)
       IN  calls' = [calls EXCEPT ![c] =
                        IF controlId = NoControl \/ EvidenceExists(evidence, controlId, check.hash)
                        THEN AfterEvidence(@)
                        ELSE [@ EXCEPT !.pc = "evidence.create"]]
    /\ UNCHANGED <<evidence, risks, assets, controls, rawData, tests, testControl, now, scans,
                   device, treatments, cache, fetches, call, lastOp>>

\* evidence.create for check k.
OverlapCreateEvidence(c) ==
    /\ calls[c].pc = "evidence.create"
    /\ LET check == ScanChecks(calls[c].scan)[calls[c].k]
       IN  evidence' = evidence (+) SetToBag({[controlId |->
                                                   findControlId(controls, check.result.controlRef),
                                               hash |-> check.hash, collectedBy |-> "system"]})
    /\ calls' = [calls EXCEPT ![c] = AfterEvidence(@)]
    /\ UNCHANGED <<risks, assets, controls, rawData, tests, testControl, now, scans, device,
                   treatments, cache, fetches, call, lastOp>>

\* upsertGitHubOrgAsset: asset.findFirst({name, type: 'SAAS'}).
OverlapFindOrgAsset(c) ==
    /\ calls[c].pc = "orgAsset.findFirst"
    /\ calls' = [calls EXCEPT ![c] =
                    [@ EXCEPT !.pc = IF AssetsNamed(assets, "GitHub Organisation", "SAAS") # {}
                                     THEN "repoAsset.findFirst" ELSE "orgAsset.create"]]
    /\ UNCHANGED <<evidence, risks, assets, controls, rawData, tests, testControl, now, scans,
                   device, treatments, cache, fetches, call, lastOp>>

\* upsertGitHubOrgAsset: asset.create.
OverlapCreateOrgAsset(c) ==
    /\ calls[c].pc = "orgAsset.create"
    /\ assets' = assets \cup {[id |-> "org-" \o c, name |-> "GitHub Organisation", type |-> "SAAS"]}
    /\ calls' = [calls EXCEPT ![c] = [@ EXCEPT !.pc = "repoAsset.findFirst"]]
    /\ UNCHANGED <<evidence, risks, controls, rawData, tests, testControl, now, scans, device,
                   treatments, cache, fetches, call, lastOp>>

\* upsertRepoAsset: asset.findFirst({name, type: 'APPLICATION'}); the update
\* of a found asset writes criticality and description only.
OverlapFindRepoAsset(c) ==
    /\ calls[c].pc = "repoAsset.findFirst"
    /\ LET found == AssetsNamed(assets, Repos[1], "APPLICATION")
       IN  IF found = {}
           THEN calls' = [calls EXCEPT ![c] = [@ EXCEPT !.pc = "repoAsset.create"]]
           ELSE \E a \in found :
                   calls' = [calls EXCEPT ![c] = AfterCheck([@ EXCEPT !.assetId = a.id], 0)]
    /\ UNCHANGED <<evidence, risks, assets, controls, rawData, tests, testControl, now, scans,
                   device, treatments, cache, fetches, call, lastOp>>

\* upsertRepoAsset: asset.create.
OverlapCreateRepoAsset(c) ==
    /\ calls[c].pc = "repoAsset.create"
    /\ assets' = assets \cup {[id |-> Repos[1] \o "-" \o c, name |-> Repos[1],
                               type |-> "APPLICATION"]}
    /\ calls' = [calls EXCEPT ![c] = AfterCheck([@ EXCEPT !.assetId = Repos[1] \o "-" \o c], 0)]
    /\ UNCHANGED <<evidence, risks, controls, rawData, tests, testControl, now, scans, device,
                   treatments, cache, fetches, call, lastOp>>

\* upsertRisk: risk.findFirst({assetId, title}) for the failing check k.
OverlapFindRisk(c) ==
    /\ calls[c].pc = "risk.findFirst"
    /\ LET found == RisksOf(risks, calls[c].assetId, RiskTitle(CHECKS[calls[c].k], Repos[1]))
       IN  IF found = {}
           THEN calls' = [calls EXCEPT ![c] = [@ EXCEPT !.pc = "risk.create"]]
           ELSE \E existing \in found :
                   calls' = [calls EXCEPT ![c] =
                                IF existing.status = "OPEN" THEN AfterCheck(@, calls[c].k)
                                ELSE [@ EXCEPT !.pc = "risk.update", !.existing = <<existing>>]]
    /\ UNCHANGED <<evidence, risks, assets, controls, rawData, tests, testControl, now, scans,
                   device, treatments, cache, fetches, call, lastOp>>

\* upsertRisk: risk.create.
OverlapCreateRisk(c) ==
    /\ calls[c].pc = "risk.create"
    /\ LET check == CHECKS[calls[c].k]
       IN  risks' = risks (+) SetToBag({[title |-> RiskTitle(check, Repos[1]),
                                         description |-> RiskDesc(check, Repos[1]),
                                         impact |-> check.impact, likelihood |-> check.likelihood,
                                         riskScore |-> calcScore(check.impact, check.likelihood),
                                         status |-> "OPEN", assetId |-> calls[c].assetId]})
    /\ calls' = [calls EXCEPT ![c] = AfterCheck(@, calls[c].k)]
    /\ UNCHANGED <<evidence, assets, controls, rawData, tests, testControl, now, scans, device,
                   treatments, cache, fetches, call, lastOp>>

\* upsertRisk: risk.update of the row found, to OPEN with the score of the check.
OverlapUpdateRisk(c) ==
    /\ calls[c].pc = "risk.update"
    /\ LET check == CHECKS[calls[c].k]
           existing == calls[c].existing[1]
       IN  risks' = IF BagIn(existing, risks)
                    THEN (risks (-) SetToBag({existing}))
                         (+) SetToBag({[existing EXCEPT
                                           !.status = "OPEN",
                                           !.riskScore = calcScore(check.impact, check.likelihood)]})
                    ELSE risks
    /\ calls' = [calls EXCEPT ![c] = AfterCheck([@ EXCEPT !.existing = << >>], calls[c].k)]
    /\ UNCHANGED <<evidence, assets, controls, rawData, tests, testControl, now, scans, device,
                   treatments, cache, fetches, call, lastOp>>

\* updateControlStatuses on the counts of the run; the organization has no
\* automated tests, so runAutomatedTests returns at once.
OverlapUpdateControls(c) ==
    /\ calls[c].pc = "updateControlStatuses"
    /\ controls' = updateControlStatuses(
                       controls,
                       checkLoop([risks |-> EmptyBag, counts |-> ZeroCounts],
                                 calls[c].scan, Repos[1], 1).counts)
    /\ calls' = [calls EXCEPT ![c] = [@ EXCEPT !.pc = "done"]]
    /\ scans' = scans + 1
    /\ lastOp' = [kind |-> "syncRepos", caller |-> c]
    /\ UNCHANGED <<evidence, risks, assets, rawData, tests, testControl, now, device,
                   treatments, cache, fetches, call>>

\* A new organization, or one whose assets an earlier scan created; a risk of
\* the repository that was set to MITIGATED by hand.
InitOverlap ==
    /\ evidence = EmptyBag
    /\ \E known \in BOOLEAN, mitigated \in BOOLEAN :
          /\ assets = IF known
                      THEN {[id |-> "org-0", name |-> "GitHub Organisation", type |-> "SAAS"],
                            [id |-> Repos[1], name |-> Repos[1], type |-> "APPLICATION"]}
                      ELSE {}
          /\ risks = IF known /\ mitigated
                     THEN SetToBag({[title |-> RiskTitle(CHECKS[1], Repos[1]),
                                     description |-> RiskDesc(CHECKS[1], Repos[1]),
                                     impact |-> CHECKS[1].impact,
                                     likelihood |-> CHECKS[1].likelihood,
                                     riskScore |-> calcScore(CHECKS[1].impact, CHECKS[1].likelihood),
                                     status |-> "MITIGATED", assetId |-> Repos[1]]})
                     ELSE EmptyBag
          /\ mitigated => known
    /\ controls = SeedControls
    /\ rawData = [r \in RepoSet |-> NoScan]
    /\ tests = << >>
    /\ testControl = {}
    /\ now = 0
    /\ scans = 0
    /\ device = NoDevice
    /\ treatments = EmptyBag
    /\ cache = [k \in AdapterKeys |-> NotCached]
    /\ calls = [c \in Callers |-> [pc |-> "idle"]]
    /\ fetches = [k \in AdapterKeys |-> 0]
    /\ call = NoCall
    /\ lastOp = [kind |-> "init"]

NextOverlap ==
    \/ \E c \in Callers, scanData \in OverlapScans : OverlapStart(c, scanData)
    \/ \E c \in Callers : OverlapFindEvidence(c)
    \/ \E c \in Callers : OverlapCreateEvidence(c)
    \/ \E c \in Callers : OverlapFindOrgAsset(c)
    \/ \E c \in Callers : OverlapCreateOrgAsset(c)
    \/ \E c \in Callers : OverlapFindRepoAsset(c)
    \/ \E c \in Callers : OverlapCreateRepoAsset(c)
    \/ \E c \in Callers : OverlapFindRisk(c)
    \/ \E c \in Callers : OverlapCreateRisk(c)
    \/ \E c \in Callers : OverlapUpdateRisk(c)
    \/ \E c \in Callers : OverlapUpdateControls(c)

SpecOverlap == InitOverlap /\ [][NextOverlap]_vars

\* The Evidence rows of a key.
EvidenceRows(controlId, hash) ==
    LET rows == {e \in BagToSet(evidence) : e.controlId = controlId /\ e.hash = hash}
    IN  SumOver(rows, [e \in rows |-> CopiesIn(e, evidence)])

\* The Risk rows of an asset under a title.
RiskRows(assetId, title) ==
    LET rows == RisksOf(risks, assetId, title)
    IN  SumOver(rows, [r \in rows |-> CopiesIn(r, risks)])

\* C26: when two repository scan runs of the organization interleave, the
\* Evidence table ends with at most one row per (controlId, hash) and the
\* Risk table with at most one row per (repository asset, risk title).
C26_NoDuplicateRows ==
    (\A c \in Callers : calls[c].pc = "done") =>
        /\ \A e \in BagToSet(evidence) : EvidenceRows(e.controlId, e.hash) <= 1
        /\ \A r \in BagToSet(risks) : RiskRows(r.assetId, r.title) <= 1

(***************************************************************************)
(* evaluateCodeReviewApproval on its own, for every number of approved and *)
(* unapproved pull requests of one repository up to MaxPRs.                *)
(***************************************************************************)
MaxPRs == 50

\* total pull requests of the last 30 days, the first approved of them merged.
PullList(approved, total) ==
    [j \in 1..total |-> PullRequest(0, j <= approved, TRUE)]

\* A new instance.
NewAdapter(cacheKeys, apiKeys) ==
    [cache |-> [k \in cacheKeys |-> NotCached], fetches |-> [k \in apiKeys |-> 0],
     requested |-> {}, failed |-> {}]

InitReview ==
    /\ evidence = EmptyBag
    /\ risks = EmptyBag
    /\ assets = {}
    /\ controls = SeedControls
    /\ rawData = [r \in RepoSet |-> NoScan]
    /\ tests = << >>
    /\ testControl = {}
    /\ now = 0
    /\ scans = 0
    /\ device = NoDevice
    /\ treatments = EmptyBag
    /\ cache = NewAdapter(CacheKeys, ApiKeys).cache
    /\ calls = [c \in Callers |-> IdleCall]
    /\ fetches = NewAdapter(CacheKeys, ApiKeys).fetches
    /\ call \in {[fn |-> "evaluateCodeReviewApproval", approved |-> a, total |-> t,
                  returned |-> FALSE] : a \in 0..MaxPRs, t \in 0..MaxPRs}
    /\ call.approved <= call.total
    /\ lastOp = [kind |-> "init"]

\* The evaluator called on a new instance, the API answering with the
\* repository and its pull requests.
ApplyCodeReviewApproval ==
    /\ call.fn = "evaluateCodeReviewApproval" /\ ~call.returned
    /\ LET answers == [k \in ApiKeys |->
                          IF k = "repos" THEN CHOOSE r \in ApiResponses(k) : r.ok
                          ELSE IF k = PullsKey(Repos[1])
                          THEN Resolved(PullList(call.approved, call.total))
                          ELSE Rejected]
       IN  \E ev \in {evaluateCodeReviewApproval(AdapterState, answers)} :
              /\ cache' = ev.st.cache
              /\ fetches' = ev.st.fetches
              /\ call' = [fn |-> call.fn, approved |-> call.approved, total |-> call.total,
                          returned |-> TRUE, status |-> ev.status,
                          findings |-> Len(ev.findings)]
              /\ lastOp' = [kind |-> "evaluateCodeReviewApproval"]
    /\ UNCHANGED <<evidence, risks, assets, controls, rawData, tests, testControl, now, scans,
                   device, treatments, calls>>

SpecReview == InitReview /\ [][ApplyCodeReviewApproval]_vars

\* C25: the verdict is Pass only when every pull request of the window counts
\* as approved and the findings are empty, Warning when the approved share is
\* at least 80% and below 100%, Fail when it is below 80%.
C25_ApprovalThresholds ==
    (call.fn = "evaluateCodeReviewApproval" /\ call.returned) =>
        /\ call.status = "Pass" => (call.approved = call.total /\ call.findings = 0)
        /\ (5 * call.approved >= 4 * call.total /\ call.approved < call.total)
              => call.status = "Warning"
        /\ 5 * call.approved < 4 * call.total => call.status = "Fail"

(***************************************************************************)
(* evaluateVulnerabilities on its own, over up to two repositories with    *)
(* up to two open alerts each.                                             *)
(***************************************************************************)
\* The keys of an instance that lists the alerts of the two repositories.
AlertKeys == {"repos"} \cup {AlertsKey(r) : r \in RefsOf(CountRepos)}

\* The answers to /user/repos: a rejection, or the first repositories of the organization.
RepoAnswers ==
    {Rejected} \cup
    {Resolved([i \in 1..n |-> [full_name |-> CountRepos[i], archived |-> FALSE, private |-> TRUE]]) :
        n \in 0..Len(CountRepos)}

\* The answers to the alerts of a repository: a rejection, or up to two open alerts.
AlertAnswers ==
    {Rejected, Resolved(<< >>), Resolved(<<[severity |-> "high"]>>),
     Resolved(<<[severity |-> "high"], [severity |-> "high"]>>),
     Resolved(<<[severity |-> "high"], [severity |-> "low"]>>)}

InitAlerts ==
    /\ evidence = EmptyBag
    /\ risks = EmptyBag
    /\ assets = {}
    /\ controls = SeedControls
    /\ rawData = [r \in RepoSet |-> NoScan]
    /\ tests = << >>
    /\ testControl = {}
    /\ now = 0
    /\ scans = 0
    /\ device = NoDevice
    /\ treatments = EmptyBag
    /\ cache = NewAdapter(AlertKeys, AlertKeys).cache
    /\ calls = [c \in Callers |-> IdleCall]
    /\ fetches = NewAdapter(AlertKeys, AlertKeys).fetches
    /\ \E severity \in {"high", "low"}, repos \in RepoAnswers :
          \E alerts \in [RefsOf(CountRepos) -> AlertAnswers] :
             call = [fn |-> "evaluateVulnerabilities", severity |-> severity,
                     api |-> [k \in AlertKeys |->
                                 IF k = "repos" THEN repos
                                 ELSE alerts[CHOOSE r \in RefsOf(CountRepos) : AlertsKey(r) = k]],
                     returned |-> FALSE]
    /\ lastOp = [kind |-> "init"]

ApplyEvaluateVulnerabilities ==
    /\ call.fn = "evaluateVulnerabilities" /\ ~call.returned
    /\ \E ev \in {evaluateVulnerabilities(AdapterState, call.severity, call.api)} :
          /\ cache' = ev.st.cache
          /\ fetches' = ev.st.fetches
          /\ call' = [fn |-> call.fn, severity |-> call.severity, api |-> call.api,
                      returned |-> TRUE, evaluation |-> [ev EXCEPT !.st = "done"]]
          /\ lastOp' = [kind |-> "evaluateVulnerabilities"]
    /\ UNCHANGED <<evidence, risks, assets, controls, rawData, tests, testControl, now, scans,
                   device, treatments, calls>>

SpecAlerts == InitAlerts /\ [][ApplyEvaluateVulnerabilities]_vars

\* The number of open alerts of a severity the API lists for a repository.
MatchingAlerts(api, fullName, severity) ==
    IF api[AlertsKey(fullName)].ok
    THEN Cardinality({x \in 1..Len(api[AlertsKey(fullName)].data) :
                         api[AlertsKey(fullName)].data[x].severity = severity})
    ELSE 0

\* C24: evaluateVulnerabilities(severity) returns Pass iff no repository has an
\* open alert of that severity and Fail otherwise; the findings hold one entry
\* for each repository with a matching alert, and the total reported is the
\* number of matching alerts.
C24_VulnerabilityVerdict ==
    (call.fn = "evaluateVulnerabilities" /\ call.returned /\ call.api["repos"].ok) =>
        LET listed == {call.api["repos"].data[i].full_name :
                          i \in 1..Len(call.api["repos"].data)}
            hit == {r \in listed : MatchingAlerts(call.api, r, call.severity) > 0}
            ev == call.evaluation
        IN  /\ ev.status = IF hit = {} THEN "Pass" ELSE "Fail"
            /\ Len(ev.findings) = Cardinality(hit)
            /\ \A r \in hit : \E i \in 1..Len(ev.findings) :
                  /\ ev.findings[i].repo = r
                  /\ ev.findings[i].count = MatchingAlerts(call.api, r, call.severity)
            /\ ev.totalUnresolved =
                  SumOver(hit, [r \in hit |-> MatchingAlerts(call.api, r, call.severity)])

\* Two high alerts on the first repository, one on the second: two findings, three alerts.
C24_Witness ==
    /\ call.fn = "evaluateVulnerabilities" /\ call.returned /\ call.severity = "high"
    /\ call.evaluation.status = "Fail"
    /\ Len(call.evaluation.findings) = 2
    /\ call.evaluation.findings[1] = [repo |-> CountRepos[1], count |-> 2]
    /\ call.evaluation.totalUnresolved = 3

====
